---- MODULE Spec2Model ----
(***************************************************************************)
(* A model of reaction-cut: the persisted task store (schema.sql), the      *)
(* download+submit front end (DownloadSection.jsx) and the back-end         *)
(* engines the store and the front end drive: the workflow orchestrator,    *)
(* the resumable upload manager and the stream recorder.                    *)
(*                                                                          *)
(* Three independent state machines share the module; each has its own      *)
(* specification and leaves the variables of the others unchanged:          *)
(*   Spec          workflow orchestrator + integrated download/submit flow  *)
(*   UploadSpec    upload manager (chunked, resumable)                      *)
(*   RecorderSpec  stream recorder (RecorderFairSpec adds the timer's       *)
(*                 fairness)                                                *)
(***************************************************************************)
EXTENDS Integers, Sequences, FiniteSets, TLC

NULL == "NULL"

(***************************************************************************)
(* Bounds of the model.                                                     *)
(***************************************************************************)
\* most parts (VideoDownload rows) one download+submit request carries
MaxParts == 2
\* bytes of one downloaded part
MaxDownloadBytes == 2
\* explicit user retries of a failed workflow instance
MaxUserRetries == 1
\* bytes of the largest artifact file
MaxFileBytes == 3
\* largest chunk size the platform hands out
MaxChunkSize == 2
\* attempts per chunk before the artifact's upload fails
MaxChunkAttempts == 2
\* process crashes (and restarts) during uploads
MaxCrashes == 2
\* explicit retries of failed uploads
MaxUploadRetries == 1
\* LiveRecordTask rows in the store
MaxTasks == 3
\* bytes written to one recording file
MaxRecordBytes == 1

\* largest value typed into the download threads field
MaxThreadsChoice == 1

\* largest value typed into the download queue size field
MaxQueueSizeChoice == 1

\* output segments of one submission task
MaxSegments == 2
\* rows of one child table of the store
MaxRows == 1
\* runs of the schema script (application starts)
MaxSchemaRuns == 2
\* rows of workflow_configurations
MaxConfigs == 3
\* parts selected in the download+submit form
MaxFormParts == 1
\* record commands in flight at once
MaxCommands == 1
\* folders on the cloud drive
MaxFolders == 3
\* directory listings in flight at once
MaxDirRequests == 2
\* QR codes generated
MaxQrKeys == 2
\* download_delete calls kept in the history
MaxDeleteCalls == 2

(***************************************************************************)
(* Program constants.                                                       *)
(***************************************************************************)
\* video_download.status codes (recordTabs; 4 is the paused list merged
\* into the downloading tab by loadDownloadList)
StatusPending == 0
StatusDownloading == 1
\* A plausible slip in the status codes: "done" is taken to be code 1.
StatusDone_AsDownloading == StatusDownloading
StatusDone == 2
StatusFailed == 3
\* A plausible slip: the paused list reuses the failed code.
StatusPaused_AsFailed == StatusFailed

StatusPaused == 4
\* workflow_steps.max_retries INTEGER DEFAULT 3
DefaultMaxRetries == 3
\* defaultWorkflowConfig.segmentationConfig.segmentDurationSeconds
DefaultSegmentDuration == 133
\* validateIntegrationForm: the longest title and description
MaxTitleLength == 80
MaxDescriptionLength == 2000
\* validateIntegrationForm: segmentDuration < 30 || segmentDuration > 600
MinSegmentDuration == 30
MaxSegmentDuration == 600
\* "maxSegments":50 of the seeded configurations
SeedMaxSegments == 50
\* "timeoutMinutes" of the two seeded configurations
Seed1TimeoutMinutes == 30
Seed2TimeoutMinutes == 60

VARIABLES
  \* ---- front end (DownloadSection) ----
  segmentationEnabled,      \* useState(true)
  segmentDurationSeconds,   \* workflowConfig.segmentationConfig.segmentDurationSeconds
  payload,                  \* the download_video requests in flight (at most one)
  \* ---- task store ----
  workflow_configurations,  \* config_id -> configuration_data (the JSON blob)
  video_download,           \* sequence of rows, index = id
  task_relations,           \* sequence of rows
  workflow_instance,        \* the instance row (status "NONE": no row yet)
  workflow_steps,           \* sequence of rows, index = step_order
  userRetries,              \* explicit retries used so far
  \* ---- upload manager ----
  file_bytes,               \* artifact -> size of its local file
  upload_rows,              \* artifact -> the upload-state block of its row
  uploader,                 \* artifact -> the worker's in-memory state
  remote,                   \* artifact -> the platform's session and parts received
  crashes,                  \* process crashes so far
  uploadRetries,            \* explicit upload retries so far
  \* ---- stream recorder ----
  anchor,                   \* room -> whether the room is subscribed
  live_room_settings,       \* room -> auto_record
  room_state,               \* room -> state of its recorder state machine
  written,                  \* room -> bytes written to the current file
  live_record_task,         \* sequence of rows, in creation order
  shutdown,                 \* the process has been shut down
  \* ---- settings store ----
  app_settings,             \* key -> stored value
  \* ---- download pool ----
  pool,                     \* the limits the pool's workers were started with
  pool_jobs,                \* job -> the pool's job (NULL: not in the pool)
  resumed_at,               \* history: job -> offset its run was resumed at
  submit_result,            \* the answer to the last download request
  \* ---- sync mirror ----
  sync_tasks,               \* job -> status of the mirror job (the store)
  tasks,                    \* SubmissionSyncSection: the list as last loaded
  syncTab,                  \* SubmissionSyncSection: useState("pending")
  \* ---- segment estimate (DownloadSection) and the SEGMENT step ----
  selectedPartsConfig,      \* the selected parts with their trim fields
  submissionRequest,        \* the request sent (at most one): videoParts, workflowConfig
  estimateShown,            \* history: estimatedSegments when the request was sent
  merged_duration,          \* seconds of the merged video (-1: not merged yet)
  \* ---- submission task and its output segments ----
  task_output_segment,      \* sequence of rows, index = part_order + 1
  submission_task,          \* the task row: status, bvid (0: NULL)
  chunk_failures,           \* upload worker: failed attempts of a segment's chunk
  upload_limit,             \* the concurrency the upload workers were started with
  remote_videos,            \* the platform: video id -> its parts, in order
  \* ---- relational store (schema.sql) ----
  db,                       \* table name -> its set of rows
  schema_runs,              \* how many times the schema script has run
  deleted_from,             \* history: the tables the last DELETE removed rows from
  \* ---- download+submit form (DownloadSection) ----
  integrationForm,          \* the fields of the form as the user has filled them in
  formMessage,              \* message ("": none)
  download_requests,        \* the download_video payloads sent, in order
  \* ---- download records view (DownloadSection) ----
  mainTab,                  \* useState("download")
  recordTab,                \* useState("pending")
  downloadList,             \* the records shown, as last set by a response
  list_requests,            \* download_list_by_status loads in flight, by status asked
  record_commands,          \* download_retry / _resume / _delete calls in flight
  download_records,         \* the store: record id -> status
  \* ---- cloud directory picker (BaiduSyncPathPicker) ----
  browserPath,              \* the path shown, a sequence of folder names (<<>>: "/")
  folders,                  \* the folder list shown, as last set by a response
  browseLoading,            \* useState(false)
  creating,                 \* useState(false)
  renamingPath,             \* the folder being renamed (NoPath: none)
  dir_requests,             \* baidu_sync_remote_dirs requests in flight
  picker_commands,          \* create and rename calls in flight
  remote_dirs,              \* the cloud drive: the set of folder paths
  \* ---- QR login (AuthSection) ----
  loading,                  \* useState(false)
  authStatus,               \* authStatus.loggedIn
  qrData,                   \* the key of the QR code shown (0: null)
  qrStatus,                 \* useState("idle")
  pollRef,                  \* pollRef.current: the key its interval polls (0: null)
  timers,                   \* the intervals that exist, by the key each polls
  auth_requests,            \* generate, logout and status calls in flight
  poll_requests,            \* auth_qrcode_poll calls in flight, by key
  qr_server,                \* the platform: key -> state of its QR code
  server_logged_in,         \* the back end holds a login
  \* ---- download wizard (DownloadSection) ----
  videoItems,               \* useState([]): the videos found, with their selection
  downloadConfig,           \* downloadPath and downloadName of the download settings
  downloadStep,             \* useState("select")
  integrationEnabled,       \* useState(false)
  searching,                \* useState(false)
  search_requests,          \* handleSearch calls in flight, by their inputs
  next_requests,            \* next and submit clicks whose validation is in flight
  \* ---- delete dialog of the records view (DownloadSection) ----
  deleteConfirmRecord,      \* the id of the record the dialog is open for (0: null)
  deleteConfirmDeleteFile,  \* useState(false): the checkbox of the dialog
  delete_calls              \* history: the download_delete calls invoked, in order

workflowVars ==
  <<segmentationEnabled, segmentDurationSeconds, payload, workflow_configurations,
    video_download, task_relations, workflow_instance, workflow_steps, userRetries>>

uploadVars == <<file_bytes, upload_rows, uploader, remote, crashes, uploadRetries>>

recorderVars ==
  <<anchor, live_room_settings, room_state, written, live_record_task, shutdown>>

settingsVars == <<app_settings>>

poolVars == <<pool, pool_jobs, resumed_at, submit_result>>

syncVars == <<sync_tasks, tasks, syncTab>>

estimateVars ==
  <<selectedPartsConfig, submissionRequest, estimateShown, merged_duration>>

publishVars ==
  <<task_output_segment, submission_task, chunk_failures, upload_limit, remote_videos>>

storeVars == <<db, schema_runs, deleted_from>>

formVars == <<integrationForm, formMessage, download_requests>>

sectionVars == <<mainTab, recordTab, downloadList, list_requests, record_commands, download_records>>

pickerVars == <<browserPath, folders, browseLoading, creating, renamingPath, dir_requests, picker_commands, remote_dirs>>

qrVars == <<loading, authStatus, qrData, qrStatus, pollRef, timers, auth_requests, poll_requests, qr_server, server_logged_in>>

wizardVars == <<videoItems, downloadConfig, downloadStep, integrationEnabled, searching, search_requests, next_requests>>

dialogVars == <<deleteConfirmRecord, deleteConfirmDeleteFile, delete_calls>>

vars ==
  <<workflowVars, uploadVars, recorderVars, settingsVars, poolVars, syncVars, estimateVars, publishVars, storeVars, formVars, sectionVars, pickerVars, qrVars, wizardVars,
    dialogVars>>

\* what an action of one component leaves alone: the other components
outsideWorkflow ==
  <<uploadVars, recorderVars, settingsVars, poolVars, syncVars, estimateVars, publishVars, storeVars, formVars, sectionVars, pickerVars, qrVars, wizardVars,
    dialogVars>>

outsideUpload ==
  <<workflowVars, recorderVars, settingsVars, poolVars, syncVars, estimateVars, publishVars, storeVars, formVars, sectionVars, pickerVars, qrVars, wizardVars,
    dialogVars>>

outsideRecorder ==
  <<workflowVars, uploadVars, settingsVars, poolVars, syncVars, estimateVars, publishVars, storeVars, formVars, sectionVars, pickerVars, qrVars, wizardVars,
    dialogVars>>

outsideSettings ==
  <<workflowVars, uploadVars, recorderVars, poolVars, syncVars, estimateVars, publishVars, storeVars, formVars, sectionVars, pickerVars, qrVars, wizardVars,
    dialogVars>>

outsidePool ==
  <<workflowVars, uploadVars, recorderVars, syncVars, estimateVars, publishVars, storeVars, formVars, sectionVars, pickerVars, qrVars, wizardVars,
    dialogVars>>

outsideSync ==
  <<workflowVars, uploadVars, recorderVars, settingsVars, poolVars, estimateVars, publishVars, storeVars, formVars, sectionVars, pickerVars, qrVars, wizardVars,
    dialogVars>>

outsideEstimate ==
  <<workflowVars, uploadVars, recorderVars, settingsVars, poolVars, syncVars, publishVars, storeVars, formVars, sectionVars, pickerVars, qrVars, wizardVars,
    dialogVars>>

outsideEstimateAndPublish ==
  <<workflowVars, uploadVars, recorderVars, settingsVars, poolVars, syncVars, storeVars, formVars, sectionVars, pickerVars, qrVars, wizardVars,
    dialogVars>>

outsideSettingsAndPublish ==
  <<workflowVars, uploadVars, recorderVars, poolVars, syncVars, estimateVars, storeVars, formVars, sectionVars, pickerVars, qrVars, wizardVars,
    dialogVars>>

outsidePublish ==
  <<workflowVars, uploadVars, recorderVars, settingsVars, poolVars, syncVars, estimateVars, storeVars, formVars, sectionVars, pickerVars, qrVars, wizardVars,
    dialogVars>>

outsideStore ==
  <<workflowVars, uploadVars, recorderVars, settingsVars, poolVars, syncVars, estimateVars, publishVars, formVars, sectionVars, pickerVars, qrVars, wizardVars,
    dialogVars>>

outsideForm ==
  <<workflowVars, uploadVars, recorderVars, settingsVars, poolVars, syncVars, estimateVars, publishVars, storeVars, sectionVars, pickerVars, qrVars, wizardVars,
    dialogVars>>

outsideSection ==
  <<workflowVars, uploadVars, recorderVars, settingsVars, poolVars, syncVars, estimateVars, publishVars, storeVars, formVars, pickerVars, qrVars, wizardVars,
    dialogVars>>

outsidePicker ==
  <<workflowVars, uploadVars, recorderVars, settingsVars, poolVars, syncVars, estimateVars, publishVars, storeVars, formVars, sectionVars, qrVars, wizardVars,
    dialogVars>>

outsideQr ==
  <<workflowVars, uploadVars, recorderVars, settingsVars, poolVars, syncVars, estimateVars, publishVars, storeVars, formVars, sectionVars, pickerVars, wizardVars,
    dialogVars>>

outsideWizard ==
  <<workflowVars, uploadVars, recorderVars, settingsVars, poolVars, syncVars, estimateVars, publishVars, storeVars, formVars, sectionVars, pickerVars, qrVars,
    dialogVars>>

\* what the main tab buttons leave alone: all but the records view and the step
outsideTabs ==
  <<workflowVars, uploadVars, recorderVars, settingsVars, poolVars, syncVars,
    estimateVars, publishVars, storeVars, formVars, pickerVars, qrVars, dialogVars,
    videoItems, downloadConfig, integrationEnabled, searching, search_requests,
    next_requests>>

outsideDialog ==
  <<workflowVars, uploadVars, recorderVars, settingsVars, poolVars, syncVars, estimateVars, publishVars, storeVars, formVars, sectionVars, pickerVars, qrVars, wizardVars>>

(***************************************************************************)
(* JSON blobs are functions from the keys present to their values.          *)
(***************************************************************************)
Get(blob, key, default) == IF key \in DOMAIN blob THEN blob[key] ELSE default

EmptyObject == [k \in {} |-> NULL]

\* schema.sql: INSERT OR IGNORE INTO workflow_configurations ... config_id 1
Seed1Blob ==
  [ enableDirectSubmission |-> TRUE,
    enableClipping |-> TRUE,
    enableMerging |-> TRUE,
    enableSegmentation |-> FALSE,
    segmentationConfig |->
      [ segmentDurationSeconds |-> DefaultSegmentDuration,
        maxSegments |-> SeedMaxSegments,
        enableSegmentation |-> FALSE ],
    retainOriginalFiles |-> TRUE,
    processingPriority |-> "NORMAL",
    maxRetries |-> DefaultMaxRetries,
    timeoutMinutes |-> Seed1TimeoutMinutes ]

\* schema.sql: INSERT OR IGNORE INTO workflow_configurations ... config_id 2
Seed2Blob ==
  [ enableDirectSubmission |-> FALSE,
    enableClipping |-> TRUE,
    enableMerging |-> TRUE,
    enableSegmentation |-> TRUE,
    segmentationConfig |->
      [ segmentDurationSeconds |-> DefaultSegmentDuration,
        maxSegments |-> SeedMaxSegments,
        enableSegmentation |-> TRUE ],
    retainOriginalFiles |-> TRUE,
    processingPriority |-> "NORMAL",
    maxRetries |-> DefaultMaxRetries,
    timeoutMinutes |-> Seed2TimeoutMinutes ]

\* A plausible slip in buildWorkflowConfig: the flag is hard-wired.
buildWorkflowConfig_Hardwired(enabled, duration, preserveOriginal) ==
  [ enableSegmentation |-> TRUE,
    segmentationConfig |->
      [ enabled |-> enabled,
        segmentDurationSeconds |-> duration,
        preserveOriginal |-> preserveOriginal ] ]

\* DownloadSection.buildWorkflowConfig
buildWorkflowConfig(enabled, duration, preserveOriginal) ==
  [ enableSegmentation |-> enabled,
    segmentationConfig |->
      [ enabled |-> enabled,
        segmentDurationSeconds |-> duration,
        preserveOriginal |-> preserveOriginal ] ]

\* Deserialisation of a configuration blob into the toggle set the
\* orchestrator schedules with; keys that are absent take their defaults.
ParseWorkflowConfig(blob) ==
  LET seg == Get(blob, "segmentationConfig", EmptyObject) IN
  [ enableDirectSubmission |-> Get(blob, "enableDirectSubmission", FALSE),
    enableClipping |-> Get(blob, "enableClipping", TRUE),
    enableMerging |-> Get(blob, "enableMerging", TRUE),
    enableSegmentation |-> Get(blob, "enableSegmentation", FALSE),
    segmentDurationSeconds |-> Get(seg, "segmentDurationSeconds", DefaultSegmentDuration),
    maxSegments |-> Get(seg, "maxSegments", SeedMaxSegments),
    retainOriginalFiles |-> Get(blob, "retainOriginalFiles", TRUE),
    processingPriority |-> Get(blob, "processingPriority", "NORMAL"),
    maxRetries |-> Get(blob, "maxRetries", DefaultMaxRetries),
    timeoutMinutes |-> Get(blob, "timeoutMinutes", Seed1TimeoutMinutes) ]

\* Serialisation of a toggle set into configuration_data, in the layout of
\* the seeded rows.
SerializeWorkflowConfig(t) ==
  [ enableDirectSubmission |-> t.enableDirectSubmission,
    enableClipping |-> t.enableClipping,
    enableMerging |-> t.enableMerging,
    enableSegmentation |-> t.enableSegmentation,
    segmentationConfig |->
      [ segmentDurationSeconds |-> t.segmentDurationSeconds,
        maxSegments |-> t.maxSegments,
        enableSegmentation |-> t.enableSegmentation ],
    retainOriginalFiles |-> t.retainOriginalFiles,
    processingPriority |-> t.processingPriority,
    maxRetries |-> t.maxRetries,
    timeoutMinutes |-> t.timeoutMinutes ]

\* The step types a toggle set schedules, in pipeline order.
ScheduledStepTypes(t) ==
  (IF t.enableClipping THEN <<"CLIP">> ELSE <<>>)
  \o (IF t.enableMerging THEN <<"MERGE">> ELSE <<>>)
  \o (IF t.enableSegmentation THEN <<"SEGMENT">> ELSE <<>>)
  \o <<"UPLOAD">>

(***************************************************************************)
(* Rows as the schema creates them.                                         *)
(***************************************************************************)
\* A plausible slip in the workflow_steps defaults: rows are born running.
NewWorkflowStep_BornRunning(type, order, maxRetries) ==
  [ step_type |-> type, step_order |-> order, status |-> "RUNNING",
    input_data |-> NULL, output_data |-> NULL, error_message |-> NULL,
    retry_count |-> 0, max_retries |-> maxRetries, started_at |-> FALSE ]

\* A plausible slip in the workflow_steps defaults: the two counters'
\* defaults are swapped (retry_count DEFAULT 3, max_retries DEFAULT 0).
NewWorkflowStep_CountersSwapped(type, order, maxRetries) ==
  [ step_type |-> type, step_order |-> order, status |-> "PENDING",
    input_data |-> NULL, output_data |-> NULL, error_message |-> NULL,
    retry_count |-> DefaultMaxRetries, max_retries |-> 0, started_at |-> FALSE ]

\* workflow_steps: status DEFAULT 'PENDING', retry_count DEFAULT 0
NewWorkflowStep(type, order, maxRetries) ==
  [ step_type |-> type, step_order |-> order, status |-> "PENDING",
    input_data |-> NULL, output_data |-> NULL, error_message |-> NULL,
    retry_count |-> 0, max_retries |-> maxRetries, started_at |-> FALSE ]

\* workflow_instances: status DEFAULT 'PENDING', progress DEFAULT 0.0
\* (progress is kept as the number of completed steps)
NewWorkflowInstance(configId) ==
  [ status |-> "PENDING", current_step |-> NULL, completed_steps |-> 0,
    configuration_id |-> configId, error_message |-> NULL ]

NoInstance ==
  [ status |-> "NONE", current_step |-> NULL, completed_steps |-> 0,
    configuration_id |-> 0, error_message |-> NULL ]

\* video_download: status DEFAULT 0, progress_total DEFAULT 0, progress_done DEFAULT 0
NewVideoDownload ==
  [ status |-> StatusPending, progress_total |-> 0, progress_done |-> 0 ]

\* task_relations: workflow_status DEFAULT 'PENDING_DOWNLOAD', retry_count DEFAULT 0
NewTaskRelation(downloadId) ==
  [ download_task_id |-> downloadId, workflow_status |-> "PENDING_DOWNLOAD",
    last_error_message |-> NULL, retry_count |-> 0 ]

MakeSteps(t) ==
  LET types == ScheduledStepTypes(t) IN
  [ i \in 1..Len(types) |-> NewWorkflowStep(types[i], i, t.maxRetries) ]

ErrorMessages == {"HTTP 503", "step timed out"}

\* What a step of a type leaves in output_data when it succeeds.
StepOutput(type) ==
  CASE type = "CLIP" -> "CLIPS"
    [] type = "MERGE" -> "MERGED_VIDEO"
    [] type = "SEGMENT" -> "SEGMENTS"
    [] OTHER -> "REMOTE_VIDEO"

(***************************************************************************)
(* Front end: the submission form of the download+submit wizard.            *)
(***************************************************************************)
SegmentDurationChoices ==
  {MinSegmentDuration - 1, MinSegmentDuration, DefaultSegmentDuration, MaxSegmentDuration + 1}

NothingSubmitted ==
  /\ payload = <<>>
  /\ workflow_instance.status = "NONE"

\* onChange={() => setSegmentationEnabled(true|false)}
SetSegmentationEnabled(b) ==
  /\ NothingSubmitted
  /\ segmentationEnabled # b
  /\ segmentationEnabled' = b
  /\ UNCHANGED <<segmentDurationSeconds, payload, workflow_configurations, video_download,
                 task_relations, workflow_instance, workflow_steps, userRetries>>
  /\ UNCHANGED outsideWorkflow

\* setWorkflowConfig(... segmentDurationSeconds: Number(event.target.value))
SetSegmentDuration(v) ==
  /\ NothingSubmitted
  /\ segmentationEnabled
  /\ segmentDurationSeconds # v
  /\ segmentDurationSeconds' = v
  /\ UNCHANGED <<segmentationEnabled, payload, workflow_configurations, video_download,
                 task_relations, workflow_instance, workflow_steps, userRetries>>
  /\ UNCHANGED outsideWorkflow

\* validateIntegrationForm, the part that reads the workflow toggles
SegmentDurationValid ==
  segmentationEnabled =>
    /\ segmentDurationSeconds >= MinSegmentDuration
    /\ segmentDurationSeconds <= MaxSegmentDuration

\* handleIntegrationDownload with integrationEnabled: one download_video
\* request carrying the workflow configuration and the selected parts
\* (preserveOriginal: the form's checkbox, read here only).
handleIntegrationDownload(nParts, preserveOriginal) ==
  /\ NothingSubmitted
  /\ SegmentDurationValid
  /\ payload' =
       << [ enableSubmission |-> TRUE,
            workflowConfig |-> buildWorkflowConfig(segmentationEnabled, segmentDurationSeconds,
                                                  preserveOriginal),
            parts |-> nParts ] >>
  /\ UNCHANGED <<segmentationEnabled, segmentDurationSeconds, workflow_configurations,
                 video_download, task_relations, workflow_instance, workflow_steps,
                 userRetries>>
  /\ UNCHANGED outsideWorkflow

(***************************************************************************)
(* Back end: download_video with a submission request.                      *)
(***************************************************************************)
InstanceConfigId == 3

\* The request's toggles: the workflowConfig blob read with the defaults,
\* the flow being the integrated one.
PayloadToggles(p) ==
  [ ParseWorkflowConfig(p.workflowConfig) EXCEPT !.enableDirectSubmission = p.enableSubmission ]

download_video ==
  /\ payload # <<>>
  /\ LET blob == SerializeWorkflowConfig(PayloadToggles(payload[1])) IN
       /\ workflow_configurations' = (InstanceConfigId :> blob) @@ workflow_configurations
       /\ workflow_steps' = MakeSteps(ParseWorkflowConfig(blob))
  /\ video_download' = [ d \in 1..payload[1].parts |-> NewVideoDownload ]
  /\ task_relations' = [ d \in 1..payload[1].parts |-> NewTaskRelation(d) ]
  /\ workflow_instance' = NewWorkflowInstance(InstanceConfigId)
  /\ payload' = <<>>
  /\ UNCHANGED <<segmentationEnabled, segmentDurationSeconds, userRetries>>
  /\ UNCHANGED outsideWorkflow

\* An instance bound to one of the seeded configurations: the integrated
\* flow (config 1, with its downloads and relations) or a plain submission
\* task (config 2).
CreateInstanceFromSeed(configId, nParts) ==
  /\ NothingSubmitted
  /\ LET t == ParseWorkflowConfig(workflow_configurations[configId])
         n == IF t.enableDirectSubmission THEN nParts ELSE 0
     IN /\ workflow_steps' = MakeSteps(t)
        /\ video_download' = [ d \in 1..n |-> NewVideoDownload ]
        /\ task_relations' = [ d \in 1..n |-> NewTaskRelation(d) ]
  /\ workflow_instance' = NewWorkflowInstance(configId)
  /\ UNCHANGED <<segmentationEnabled, segmentDurationSeconds, payload,
                 workflow_configurations, userRetries>>
  /\ UNCHANGED outsideWorkflow

(***************************************************************************)
(* Download worker: the VideoDownload rows of the request.                  *)
(***************************************************************************)
DownloadIds == DOMAIN video_download

SetDownload(d, row) ==
  /\ video_download' = [video_download EXCEPT ![d] = row]
  /\ UNCHANGED <<segmentationEnabled, segmentDurationSeconds, payload,
                 workflow_configurations, task_relations, workflow_instance,
                 workflow_steps, userRetries>>
  /\ UNCHANGED outsideWorkflow

\* a worker takes a pending job; the size of the part becomes known
DownloadStart(d, total) ==
  /\ video_download[d].status = StatusPending
  /\ SetDownload(d, [video_download[d] EXCEPT !.status = StatusDownloading,
                                              !.progress_total = total])

DownloadProgress(d) ==
  /\ video_download[d].status = StatusDownloading
  /\ video_download[d].progress_done < video_download[d].progress_total
  /\ SetDownload(d, [video_download[d] EXCEPT !.progress_done = @ + 1])

DownloadFinish(d) ==
  /\ video_download[d].status = StatusDownloading
  /\ video_download[d].progress_done = video_download[d].progress_total
  /\ SetDownload(d, [video_download[d] EXCEPT !.status = StatusDone])

DownloadFail(d) ==
  /\ video_download[d].status = StatusDownloading
  /\ video_download[d].progress_done < video_download[d].progress_total
  /\ SetDownload(d, [video_download[d] EXCEPT !.status = StatusFailed])

\* cooperative pause: the offset reached is kept
DownloadPause(d) ==
  /\ video_download[d].status = StatusDownloading
  /\ video_download[d].progress_done < video_download[d].progress_total
  /\ SetDownload(d, [video_download[d] EXCEPT !.status = StatusPaused])

\* handleResumeRecord -> download_resume
handleResumeRecord(d) ==
  /\ video_download[d].status = StatusPaused
  /\ SetDownload(d, [video_download[d] EXCEPT !.status = StatusDownloading])

\* handleRetryRecord -> download_retry: back to pending, progress cleared
handleRetryRecord(d) ==
  /\ video_download[d].status = StatusFailed
  /\ SetDownload(d, [video_download[d] EXCEPT !.status = StatusPending,
                                              !.progress_done = 0])

(***************************************************************************)
(* Workflow orchestrator.                                                   *)
(***************************************************************************)
StepIds == DOMAIN workflow_steps

\* the upstream dependency of the integrated flow: every download the
\* instance's relations name has reached done
DownloadsDone ==
  \A r \in DOMAIN task_relations :
    video_download[task_relations[r].download_task_id].status = StatusDone

PredecessorsCompleted(i) ==
  \A j \in StepIds : j < i => workflow_steps[j].status = "COMPLETED"

StepInput(i) ==
  IF i = 1 THEN "SOURCE_VIDEOS" ELSE workflow_steps[i - 1].output_data

SetRelations(status, message) ==
  task_relations' =
    [ r \in DOMAIN task_relations |->
        [ task_relations[r] EXCEPT !.workflow_status = status,
                                   !.last_error_message = message ] ]

\* a step becomes eligible when its predecessor is in terminal success
StartStep(i) ==
  /\ workflow_instance.status \in {"PENDING", "RUNNING"}
  /\ workflow_steps[i].status = "PENDING"
  /\ PredecessorsCompleted(i)
  /\ DownloadsDone
  /\ workflow_steps' =
       [workflow_steps EXCEPT ![i].status = "RUNNING",
                              ![i].started_at = TRUE,
                              ![i].input_data = StepInput(i)]
  /\ workflow_instance' =
       [workflow_instance EXCEPT !.status = "RUNNING",
                                 !.current_step = workflow_steps[i].step_type]
  /\ SetRelations("WORKFLOW_RUNNING", NULL)
  /\ UNCHANGED <<segmentationEnabled, segmentDurationSeconds, payload,
                 workflow_configurations, video_download, userRetries>>
  /\ UNCHANGED outsideWorkflow

CompleteStep(i) ==
  /\ workflow_steps[i].status = "RUNNING"
  /\ workflow_steps' =
       [workflow_steps EXCEPT ![i].status = "COMPLETED",
                              ![i].output_data = StepOutput(workflow_steps[i].step_type)]
  /\ LET last == i = Len(workflow_steps) IN
       /\ workflow_instance' =
            [workflow_instance EXCEPT
               !.completed_steps = @ + 1,
               !.status = IF last THEN "COMPLETED" ELSE @]
       /\ IF last THEN SetRelations("WORKFLOW_COMPLETED", NULL)
                  ELSE UNCHANGED task_relations
  /\ UNCHANGED <<segmentationEnabled, segmentDurationSeconds, payload,
                 workflow_configurations, video_download, userRetries>>
  /\ UNCHANGED outsideWorkflow

\* the count a failure leaves on the step
RetryCountAfterFailure(step) == step.retry_count + 1

\* whether a step that has just failed is out of retries
RetriesExhausted(step, count) == count >= step.max_retries

\* a failure (an error of the step, or its timeout): one more retry used;
\* under max_retries the step waits for a fresh attempt, otherwise the step
\* and the instance fail for good and the message is kept
FailStep(i, message) ==
  /\ workflow_steps[i].status = "RUNNING"
  /\ LET count == RetryCountAfterFailure(workflow_steps[i])
         terminal == RetriesExhausted(workflow_steps[i], count)
     IN /\ workflow_steps' =
             [workflow_steps EXCEPT
                ![i].retry_count = count,
                ![i].error_message = message,
                ![i].status = IF terminal THEN "FAILED" ELSE "PENDING"]
        /\ IF terminal
             THEN /\ workflow_instance' =
                       [workflow_instance EXCEPT !.status = "FAILED",
                                                 !.error_message = message]
                  /\ SetRelations("WORKFLOW_FAILED", message)
             ELSE UNCHANGED <<workflow_instance, task_relations>>
  /\ UNCHANGED <<segmentationEnabled, segmentDurationSeconds, payload,
                 workflow_configurations, video_download, userRetries>>
  /\ UNCHANGED outsideWorkflow

\* A plausible slip in the explicit retry: the instance is restarted from
\* scratch, every step pending again with its counters and output cleared.
RetryInstance_FromScratch ==
  /\ workflow_instance.status = "FAILED"
  /\ userRetries < MaxUserRetries
  /\ userRetries' = userRetries + 1
  /\ workflow_steps' =
       [ i \in StepIds |->
           [workflow_steps[i] EXCEPT !.status = "PENDING",
                                     !.retry_count = 0,
                                     !.error_message = NULL,
                                     !.input_data = NULL,
                                     !.output_data = NULL] ]
  /\ workflow_instance' =
       [workflow_instance EXCEPT !.status = "RUNNING", !.error_message = NULL]
  /\ task_relations' =
       [ r \in DOMAIN task_relations |->
           [ task_relations[r] EXCEPT !.workflow_status = "WORKFLOW_RUNNING",
                                      !.last_error_message = NULL,
                                      !.retry_count = @ + 1 ] ]
  /\ UNCHANGED <<segmentationEnabled, segmentDurationSeconds, payload,
                 workflow_configurations, video_download>>
  /\ UNCHANGED outsideWorkflow

\* explicit retry of a failed instance: the failed step's counter is reset
\* and the state machine is re-entered at that step
RetryInstance ==
  /\ workflow_instance.status = "FAILED"
  /\ userRetries < MaxUserRetries
  /\ userRetries' = userRetries + 1
  /\ workflow_steps' =
       [ i \in StepIds |->
           IF workflow_steps[i].status = "FAILED"
             THEN [workflow_steps[i] EXCEPT !.status = "PENDING",
                                            !.retry_count = 0,
                                            !.error_message = NULL]
             ELSE workflow_steps[i] ]
  /\ workflow_instance' =
       [workflow_instance EXCEPT !.status = "RUNNING", !.error_message = NULL]
  /\ task_relations' =
       [ r \in DOMAIN task_relations |->
           [ task_relations[r] EXCEPT !.workflow_status = "WORKFLOW_RUNNING",
                                      !.last_error_message = NULL,
                                      !.retry_count = @ + 1 ] ]
  /\ UNCHANGED <<segmentationEnabled, segmentDurationSeconds, payload,
                 workflow_configurations, video_download>>
  /\ UNCHANGED outsideWorkflow


(***************************************************************************)
(* Upload manager: resumable chunked upload of the artifacts of a task.     *)
(* A row's upload_session_id is 0 while the column is NULL; parts are       *)
(* numbered from 1, upload_last_part_index 0 meaning that none is complete. *)
(***************************************************************************)
Artifacts == {"artifact-a"}

\* A plausible slip in the upload-state defaults: the byte counter's
\* default is 1.
NewUploadRow_BytesFromOne ==
  [ upload_status |-> "PENDING", upload_uploaded_bytes |-> 1, upload_total_bytes |-> 0,
    upload_session_id |-> 0, upload_chunk_size |-> 0, upload_last_part_index |-> 0,
    cid |-> 0 ]

\* A plausible slip in the upload-state defaults: the part index's default
\* is 1.
NewUploadRow_IndexFromOne ==
  [ upload_status |-> "PENDING", upload_uploaded_bytes |-> 0, upload_total_bytes |-> 0,
    upload_session_id |-> 0, upload_chunk_size |-> 0, upload_last_part_index |-> 1,
    cid |-> 0 ]

\* merged_video / task_output_segment: upload_uploaded_bytes DEFAULT 0,
\* upload_total_bytes DEFAULT 0, upload_chunk_size DEFAULT 0,
\* upload_last_part_index DEFAULT 0, upload_session_id and cid NULL
NewUploadRow ==
  [ upload_status |-> "PENDING", upload_uploaded_bytes |-> 0, upload_total_bytes |-> 0,
    upload_session_id |-> 0, upload_chunk_size |-> 0, upload_last_part_index |-> 0,
    cid |-> 0 ]

IdleUploader == [ pc |-> "idle", part |-> 0, attempts |-> 0, session |-> 0, chunk |-> 0 ]

NoRemote == [ session |-> 0, parts |-> {} ]

Min(a, b) == IF a <= b THEN a ELSE b

\* number of parts of a file of `total` bytes cut in chunks of `chunk`
NumParts(total, chunk) == (total + chunk - 1) \div chunk

\* bytes of part k (the last part may be short)
PartBytes(total, chunk, k) == Min(chunk, total - (k - 1) * chunk)

\* A plausible slip in the resume point: the last completed part is sent
\* again.
NextPartIndex_Resend(row) ==
  IF row.upload_last_part_index = 0 THEN 1 ELSE row.upload_last_part_index

\* the part a worker sends next: the one after the last completed one
NextPartIndex(row) == row.upload_last_part_index + 1

SetUploader(a, w) == uploader' = [uploader EXCEPT ![a] = w]

SetUploadRow(a, row) == upload_rows' = [upload_rows EXCEPT ![a] = row]

\* a worker picks the artifact up: with a persisted session it resumes,
\* otherwise it has to negotiate one
BeginUpload(a) ==
  /\ uploader[a].pc = "idle"
  /\ upload_rows[a].upload_status \in {"PENDING", "UPLOADING"}
  /\ IF upload_rows[a].upload_session_id # 0
       THEN SetUploader(a, [IdleUploader EXCEPT
                              !.pc = "ready",
                              !.session = upload_rows[a].upload_session_id,
                              !.chunk = upload_rows[a].upload_chunk_size])
       ELSE SetUploader(a, [IdleUploader EXCEPT !.pc = "negotiating"])
  /\ UNCHANGED <<file_bytes, upload_rows, remote, crashes, uploadRetries>>
  /\ UNCHANGED outsideUpload

\* the platform opens a session and names the chunk size
NegotiateSession(a, chunk) ==
  /\ uploader[a].pc = "negotiating"
  /\ remote' = [remote EXCEPT ![a] = [session |-> remote[a].session + 1, parts |-> {}]]
  /\ SetUploader(a, [uploader[a] EXCEPT !.pc = "negotiated",
                                        !.session = remote[a].session + 1,
                                        !.chunk = chunk])
  /\ UNCHANGED <<file_bytes, upload_rows, crashes, uploadRetries>>
  /\ UNCHANGED outsideUpload

\* the negotiated session is persisted before the first chunk is sent; the
\* byte counter and the part index are left as the row has them
PersistSession(a) ==
  /\ uploader[a].pc = "negotiated"
  /\ SetUploadRow(a, [upload_rows[a] EXCEPT
                        !.upload_status = "UPLOADING",
                        !.upload_session_id = uploader[a].session,
                        !.upload_chunk_size = uploader[a].chunk,
                        !.upload_total_bytes = file_bytes[a]])
  /\ SetUploader(a, [uploader[a] EXCEPT !.pc = "ready"])
  /\ UNCHANGED <<file_bytes, remote, crashes, uploadRetries>>
  /\ UNCHANGED outsideUpload

RowParts(row) == NumParts(row.upload_total_bytes, row.upload_chunk_size)

\* the next part goes on the wire
SendChunk(a) ==
  /\ uploader[a].pc = "ready"
  /\ NextPartIndex(upload_rows[a]) <= RowParts(upload_rows[a])
  /\ SetUploader(a, [uploader[a] EXCEPT !.pc = "sending",
                                        !.part = NextPartIndex(upload_rows[a])])
  /\ UNCHANGED <<file_bytes, upload_rows, remote, crashes, uploadRetries>>
  /\ UNCHANGED outsideUpload

\* the platform stores the part
RemoteAccept(a) ==
  /\ uploader[a].pc = "sending"
  /\ uploader[a].session = remote[a].session
  /\ remote' = [remote EXCEPT ![a].parts = @ \cup {uploader[a].part}]
  /\ SetUploader(a, [uploader[a] EXCEPT !.pc = "acked"])
  /\ UNCHANGED <<file_bytes, upload_rows, crashes, uploadRetries>>
  /\ UNCHANGED outsideUpload

\* the acknowledged part is recorded: bytes and index in one write
PersistChunk(a) ==
  /\ uploader[a].pc = "acked"
  /\ LET row == upload_rows[a] IN
       SetUploadRow(a, [row EXCEPT
         !.upload_uploaded_bytes =
            @ + PartBytes(row.upload_total_bytes, row.upload_chunk_size, uploader[a].part),
         !.upload_last_part_index = uploader[a].part])
  /\ SetUploader(a, [uploader[a] EXCEPT !.pc = "ready", !.part = 0, !.attempts = 0])
  /\ UNCHANGED <<file_bytes, remote, crashes, uploadRetries>>
  /\ UNCHANGED outsideUpload

\* a transient error of the chunk (timeout, 5xx), before or after the
\* platform stored it: retried up to the attempt bound, then the artifact's
\* upload fails
ChunkError(a) ==
  /\ uploader[a].pc \in {"sending", "acked"}
  /\ IF uploader[a].attempts + 1 >= MaxChunkAttempts
       THEN /\ SetUploadRow(a, [upload_rows[a] EXCEPT !.upload_status = "FAILED"])
            /\ SetUploader(a, IdleUploader)
       ELSE /\ SetUploader(a, [uploader[a] EXCEPT !.pc = "ready", !.part = 0,
                                                  !.attempts = @ + 1])
            /\ UNCHANGED upload_rows
  /\ UNCHANGED <<file_bytes, remote, crashes, uploadRetries>>
  /\ UNCHANGED outsideUpload

\* every part is complete: the platform returns the content id
CompleteUpload(a) ==
  /\ uploader[a].pc = "ready"
  /\ upload_rows[a].upload_last_part_index = RowParts(upload_rows[a])
  /\ SetUploadRow(a, [upload_rows[a] EXCEPT !.upload_status = "SUCCESS",
                                            !.cid = uploader[a].session])
  /\ SetUploader(a, IdleUploader)
  /\ UNCHANGED <<file_bytes, remote, crashes, uploadRetries>>
  /\ UNCHANGED outsideUpload

\* explicit retry of a failed upload: the upload state is reset to zero
RetryUpload(a) ==
  /\ upload_rows[a].upload_status = "FAILED"
  /\ uploadRetries < MaxUploadRetries
  /\ uploadRetries' = uploadRetries + 1
  /\ SetUploadRow(a, NewUploadRow)
  /\ UNCHANGED <<file_bytes, uploader, remote, crashes>>
  /\ UNCHANGED outsideUpload

\* the process dies and restarts: the store is all that is left
Crash ==
  /\ crashes < MaxCrashes
  /\ \E a \in Artifacts : uploader[a].pc # "idle"
  /\ crashes' = crashes + 1
  /\ uploader' = [a \in Artifacts |-> IdleUploader]
  /\ UNCHANGED <<file_bytes, upload_rows, remote, uploadRetries>>
  /\ UNCHANGED outsideUpload

UploadIdle ==
  /\ file_bytes = [a \in Artifacts |-> 1]
  /\ upload_rows = [a \in Artifacts |-> NewUploadRow]
  /\ uploader = [a \in Artifacts |-> IdleUploader]
  /\ remote = [a \in Artifacts |-> NoRemote]
  /\ crashes = 0
  /\ uploadRetries = 0

UploadInit ==
  /\ file_bytes \in [Artifacts -> 1..MaxFileBytes]
  /\ upload_rows = [a \in Artifacts |-> NewUploadRow]
  /\ uploader = [a \in Artifacts |-> IdleUploader]
  /\ remote = [a \in Artifacts |-> NoRemote]
  /\ crashes = 0
  /\ uploadRetries = 0

UploadNext ==
  \/ \E a \in Artifacts : BeginUpload(a)
  \/ \E a \in Artifacts, c \in 1..MaxChunkSize : NegotiateSession(a, c)
  \/ \E a \in Artifacts : PersistSession(a)
  \/ \E a \in Artifacts : SendChunk(a)
  \/ \E a \in Artifacts : RemoteAccept(a)
  \/ \E a \in Artifacts : PersistChunk(a)
  \/ \E a \in Artifacts : ChunkError(a)
  \/ \E a \in Artifacts : CompleteUpload(a)
  \/ \E a \in Artifacts : RetryUpload(a)
  \/ Crash

(***************************************************************************)
(* Claims about the upload manager (checked under UploadSpec).              *)
(***************************************************************************)
C3_BytesWithinTotal ==
  \A a \in Artifacts :
    upload_rows[a].upload_uploaded_bytes <= upload_rows[a].upload_total_bytes

C3_BytesMonotone ==
  \A a \in Artifacts :
    \/ upload_rows'[a].upload_uploaded_bytes >= upload_rows[a].upload_uploaded_bytes
    \/ RetryUpload(a) /\ upload_rows'[a].upload_uploaded_bytes = 0

\* C3: upload_uploaded_bytes stays within upload_total_bytes, and it never
\* decreases from one state to the next except when the explicit retry
\* resets it to zero.
C3_UploadedBytes == [](C3_BytesWithinTotal) /\ [][C3_BytesMonotone]_vars

\* a file whose last part is short is fully recorded, in an upload that was
\* reset by a retry and interrupted by a crash
C3_Witness ==
  \E a \in Artifacts :
    /\ upload_rows[a].upload_total_bytes > upload_rows[a].upload_chunk_size
    /\ upload_rows[a].upload_chunk_size > 1
    /\ upload_rows[a].upload_uploaded_bytes = upload_rows[a].upload_total_bytes
    /\ uploadRetries > 0
    /\ crashes > 0

\* C4: a part on the wire is never one the row records as complete: a
\* resumed upload sends the part after upload_last_part_index, whatever the
\* number of interruptions.
C4_NoResend ==
  \A a \in Artifacts :
    uploader[a].pc \in {"sending", "acked"} =>
      /\ upload_rows[a].upload_session_id # 0
      /\ uploader[a].part > upload_rows[a].upload_last_part_index
      /\ uploader[a].part = upload_rows[a].upload_last_part_index + 1

\* the third part is on the wire after two interruptions, each of which
\* followed a completed part
C4_Witness ==
  \E a \in Artifacts :
    /\ crashes = 2
    /\ uploader[a].pc = "sending"
    /\ upload_rows[a].upload_last_part_index = 2
    /\ uploader[a].part = 3

\* C5: no part goes on the wire before the session is persisted; with a
\* session persisted the row's part index and byte offset describe exactly
\* the parts the platform holds (none skipped, the counter and the index
\* written together), and no worker negotiates anew, so a crash at any
\* point leaves an upload that resumes after the last recorded part.
C5_SessionPersistedFirst ==
  \A a \in Artifacts :
    LET row == upload_rows[a]
        w == uploader[a]
    IN /\ w.pc \in {"sending", "acked"} =>
            row.upload_session_id = w.session /\ w.session # 0
       /\ w.pc \in {"negotiating", "negotiated"} => row.upload_session_id = 0
       /\ row.upload_session_id = 0 =>
            row.upload_last_part_index = 0 /\ row.upload_uploaded_bytes = 0
       /\ row.upload_session_id # 0 =>
            /\ row.upload_session_id = remote[a].session
            /\ \A k \in 1..row.upload_last_part_index : k \in remote[a].parts
            /\ remote[a].parts \subseteq 1..(row.upload_last_part_index + 1)
            /\ row.upload_last_part_index <= RowParts(row)
            /\ row.upload_uploaded_bytes =
                 Min(row.upload_last_part_index * row.upload_chunk_size,
                     row.upload_total_bytes)

\* after a crash that followed the first recorded part, and one that hit
\* the second part in flight after the platform had stored it, the worker
\* is back with the persisted session, about to send the second part again
C5_Witness ==
  \E a \in Artifacts :
    /\ crashes = 2
    /\ uploader[a].pc = "ready"
    /\ uploader[a].session = upload_rows[a].upload_session_id
    /\ upload_rows[a].upload_last_part_index = 1
    /\ remote[a].parts = {1, 2}
    /\ RowParts(upload_rows[a]) = 3

(***************************************************************************)
(* Stream recorder: one state machine per room,                             *)
(*   Idle -> Connecting -> Recording -> (Reconnecting | SegmentRotating |   *)
(*   Stopped)                                                               *)
(***************************************************************************)
Rooms == {"room-1", "room-2"}

\* live_room_settings: auto_record INTEGER NOT NULL DEFAULT 1
DefaultAutoRecord == TRUE

\* live_record_task: end_time NULL (ended FALSE), file_size DEFAULT 0
NewLiveRecordTask(room, index) ==
  [ room_id |-> room, status |-> "recording", segment_index |-> index,
    ended |-> FALSE, file_size |-> 0, error_message |-> NULL ]

TaskIds == DOMAIN live_record_task

RoomTasks(room) == { i \in TaskIds : live_record_task[i].room_id = room }

IsOpen(i) == live_record_task[i].status = "recording" /\ ~live_record_task[i].ended

OpenTasks(room) == { i \in RoomTasks(room) : IsOpen(i) }

MaxOf(S) == CHOOSE x \in S : \A y \in S : y <= x

\* A plausible slip in the segment numbering: the counter is shared by all
\* rooms.
NextSegmentIndex_Global(room) == Len(live_record_task) + 1

\* the segment index of the next task of a room: one past its newest task
NextSegmentIndex(room) ==
  IF RoomTasks(room) = {} THEN 1
  ELSE live_record_task[MaxOf(RoomTasks(room))].segment_index + 1

\* A plausible slip in finalisation: the row is closed in memory only.
FinalizedTasks_NotWritten(room, status, message) == live_record_task

\* the rows with the open task of a room (if any) finalised: status, end
\* time and final file size
FinalizedTasks(room, status, message) ==
  [ i \in TaskIds |->
      IF i \in OpenTasks(room)
        THEN [ live_record_task[i] EXCEPT !.status = status, !.ended = TRUE,
                                          !.file_size = written[room],
                                          !.error_message = message ]
        ELSE live_record_task[i] ]

\* anchor_subscribe: the room is monitored from now on
anchor_subscribe(room) ==
  /\ ~shutdown
  /\ ~anchor[room]
  /\ anchor' = [anchor EXCEPT ![room] = TRUE]
  /\ room_state' = [room_state EXCEPT
                      ![room] = IF live_room_settings[room] THEN "Idle" ELSE "Stopped"]
  /\ UNCHANGED <<live_room_settings, written, live_record_task, shutdown>>
  /\ UNCHANGED outsideRecorder

\* anchor_unsubscribe: Stopped, the open task is finalised
anchor_unsubscribe(room) ==
  /\ ~shutdown
  /\ anchor[room]
  /\ anchor' = [anchor EXCEPT ![room] = FALSE]
  /\ room_state' = [room_state EXCEPT ![room] = "Stopped"]
  /\ live_record_task' = FinalizedTasks(room, "completed", NULL)
  /\ written' = [written EXCEPT ![room] = 0]
  /\ UNCHANGED <<live_room_settings, shutdown>>
  /\ UNCHANGED outsideRecorder

\* handleAutoRecordToggle -> live_room_auto_record_update(!autoRecord)
live_room_auto_record_update(room) ==
  /\ ~shutdown
  /\ anchor[room]
  /\ live_room_settings' = [live_room_settings EXCEPT ![room] = ~@]
  /\ IF live_room_settings[room]
       THEN /\ room_state' = [room_state EXCEPT ![room] = "Stopped"]
            /\ live_record_task' = FinalizedTasks(room, "completed", NULL)
            /\ written' = [written EXCEPT ![room] = 0]
       ELSE /\ room_state' = [room_state EXCEPT ![room] = "Idle"]
            /\ UNCHANGED <<live_record_task, written>>
  /\ UNCHANGED <<anchor, shutdown>>
  /\ UNCHANGED outsideRecorder

\* the status poll finds the room live
LiveDetected(room) ==
  /\ ~shutdown
  /\ room_state[room] = "Idle"
  /\ room_state' = [room_state EXCEPT ![room] = "Connecting"]
  /\ UNCHANGED <<anchor, live_room_settings, written, live_record_task, shutdown>>
  /\ UNCHANGED outsideRecorder

\* the transport is connected: a room without an open task gets a new one;
\* with one, the recorder appends to it, or (gap: the FLV fix found the
\* stream discontinuous) closes it and starts a new segment
ConnectOk(room, gap) ==
  /\ ~shutdown
  /\ room_state[room] = "Connecting"
  /\ gap => OpenTasks(room) # {}
  /\ IF OpenTasks(room) # {} /\ ~gap
       THEN UNCHANGED <<live_record_task, written>>
       ELSE /\ Len(live_record_task) < MaxTasks
            /\ live_record_task' =
                 Append(FinalizedTasks(room, "completed", NULL),
                        NewLiveRecordTask(room, NextSegmentIndex(room)))
            /\ written' = [written EXCEPT ![room] = 0]
  /\ room_state' = [room_state EXCEPT ![room] = "Recording"]
  /\ UNCHANGED <<anchor, live_room_settings, shutdown>>
  /\ UNCHANGED outsideRecorder

\* connect failure or timeout
ConnectFail(room) ==
  /\ ~shutdown
  /\ room_state[room] = "Connecting"
  /\ room_state' = [room_state EXCEPT ![room] = "Reconnecting"]
  /\ UNCHANGED <<anchor, live_room_settings, written, live_record_task, shutdown>>
  /\ UNCHANGED outsideRecorder

\* the stream drops
StreamDisconnect(room) ==
  /\ ~shutdown
  /\ room_state[room] = "Recording"
  /\ room_state' = [room_state EXCEPT ![room] = "Reconnecting"]
  /\ UNCHANGED <<anchor, live_room_settings, written, live_record_task, shutdown>>
  /\ UNCHANGED outsideRecorder

\* A plausible slip in the retry timer: a room whose task failed is given up.
RetryTimer_GiveUp(room) ==
  /\ ~shutdown
  /\ room_state[room] = "Reconnecting"
  /\ \A i \in RoomTasks(room) : live_record_task[i].status # "failed"
  /\ room_state' = [room_state EXCEPT ![room] = "Connecting"]
  /\ UNCHANGED <<anchor, live_room_settings, written, live_record_task, shutdown>>
  /\ UNCHANGED outsideRecorder

\* the retry interval has passed
RetryTimer(room) ==
  /\ ~shutdown
  /\ room_state[room] = "Reconnecting"
  /\ room_state' = [room_state EXCEPT ![room] = "Connecting"]
  /\ UNCHANGED <<anchor, live_room_settings, written, live_record_task, shutdown>>
  /\ UNCHANGED outsideRecorder

\* frames are appended to the current file
WriteFrame(room) ==
  /\ ~shutdown
  /\ room_state[room] = "Recording"
  /\ written[room] < MaxRecordBytes
  /\ written' = [written EXCEPT ![room] = @ + 1]
  /\ UNCHANGED <<anchor, live_room_settings, room_state, live_record_task, shutdown>>
  /\ UNCHANGED outsideRecorder

\* a disk write error: fatal for the task, not for the room
DiskWriteError(room) ==
  /\ ~shutdown
  /\ room_state[room] = "Recording"
  /\ live_record_task' = FinalizedTasks(room, "failed", "disk write error")
  /\ written' = [written EXCEPT ![room] = 0]
  /\ room_state' = [room_state EXCEPT ![room] = "Reconnecting"]
  /\ UNCHANGED <<anchor, live_room_settings, shutdown>>
  /\ UNCHANGED outsideRecorder

\* the cutting policy fires: the current file is closed
CloseSegment(room) ==
  /\ ~shutdown
  /\ room_state[room] = "Recording"
  /\ Len(live_record_task) < MaxTasks
  /\ live_record_task' = FinalizedTasks(room, "completed", NULL)
  /\ room_state' = [room_state EXCEPT ![room] = "SegmentRotating"]
  /\ UNCHANGED <<anchor, live_room_settings, written, shutdown>>
  /\ UNCHANGED outsideRecorder

\* ... and the next segment's row is opened
OpenSegment(room) ==
  /\ ~shutdown
  /\ room_state[room] = "SegmentRotating"
  /\ Len(live_record_task) < MaxTasks
  /\ live_record_task' =
       Append(live_record_task, NewLiveRecordTask(room, NextSegmentIndex(room)))
  /\ written' = [written EXCEPT ![room] = 0]
  /\ room_state' = [room_state EXCEPT ![room] = "Recording"]
  /\ UNCHANGED <<anchor, live_room_settings, shutdown>>
  /\ UNCHANGED outsideRecorder

Shutdown ==
  /\ ~shutdown
  /\ shutdown' = TRUE
  /\ UNCHANGED <<anchor, live_room_settings, room_state, written, live_record_task>>
  /\ UNCHANGED outsideRecorder

RecorderInit ==
  /\ anchor = [r \in Rooms |-> FALSE]
  /\ live_room_settings = [r \in Rooms |-> DefaultAutoRecord]
  /\ room_state = [r \in Rooms |-> "Stopped"]
  /\ written = [r \in Rooms |-> 0]
  /\ live_record_task = <<>>
  /\ shutdown = FALSE

RecorderNext ==
  \/ \E r \in Rooms : anchor_subscribe(r)
  \/ \E r \in Rooms : anchor_unsubscribe(r)
  \/ \E r \in Rooms : live_room_auto_record_update(r)
  \/ \E r \in Rooms : LiveDetected(r)
  \/ \E r \in Rooms, gap \in BOOLEAN : ConnectOk(r, gap)
  \/ \E r \in Rooms : ConnectFail(r)
  \/ \E r \in Rooms : StreamDisconnect(r)
  \/ \E r \in Rooms : RetryTimer(r)
  \/ \E r \in Rooms : WriteFrame(r)
  \/ \E r \in Rooms : DiskWriteError(r)
  \/ \E r \in Rooms : CloseSegment(r)
  \/ \E r \in Rooms : OpenSegment(r)
  \/ Shutdown

(***************************************************************************)
(* Claims about the stream recorder.                                        *)
(***************************************************************************)
\* the task of a room created right before task i, 0 when i is its first
PreviousTask(room, i) ==
  LET earlier == { j \in RoomTasks(room) : j < i } IN
    IF earlier = {} THEN 0 ELSE MaxOf(earlier)

Monitored(room) == anchor[room] /\ live_room_settings[room] /\ ~shutdown

C8_NeverGivenUp ==
  \A room \in Rooms : Monitored(room) => room_state[room] # "Stopped"

DefaultDownloadThreads == 3

DefaultDownloadQueueSize == 10

DefaultUploadConcurrency == 3

\* Math.min(5, Math.max(1, Number(uploadConcurrency) || 1))
UploadConcurrencyFloor == 1

UploadConcurrencyCap == 5

SeedSettings ==
  [ download_threads |-> DefaultDownloadThreads,
    download_queue_size |-> DefaultDownloadQueueSize,
    submission_upload_concurrency |-> DefaultUploadConcurrency ]

\* A plausible slip: the upload concurrency is sent as typed, like the
\* download fields.
normalizedUploadConcurrency_AsTyped(uploadConcurrency) == uploadConcurrency

normalizedUploadConcurrency(uploadConcurrency) ==
  Min(UploadConcurrencyCap,
      IF uploadConcurrency > UploadConcurrencyFloor
        THEN uploadConcurrency ELSE UploadConcurrencyFloor)

handleSave(threads, queueSize, uploadConcurrency) ==
  /\ app_settings' =
       [ download_threads |-> threads,
         download_queue_size |-> queueSize,
         submission_upload_concurrency |->
           normalizedUploadConcurrency(uploadConcurrency) ]
  /\ UNCHANGED outsideSettings

SettingsInit == app_settings = SeedSettings

(***************************************************************************)
(* Download pool: a bounded set of workers over a bounded queue. A job is   *)
(* queued (status 0), downloading (1), done (2), failed (3) or paused (4).  *)
(***************************************************************************)
DownloadJobs == {"job-a", "job-b"}

\* the values a user types into the threads and queue size fields
ThreadChoices == 0..MaxThreadsChoice

QueueSizeChoices == 0..MaxQueueSizeChoice

NewDownloadJob ==
  [ status |-> StatusPending, progress_total |-> 0, progress_done |-> 0,
    message |-> NULL ]

\* resumed_at of a job that has not been resumed
NotResumed == 0 - 1

\* merged_duration before the merge
NotMerged == 0 - 1

PoolJobIds == DOMAIN pool_jobs

JobsWithStatus(status) == { j \in PoolJobIds : pool_jobs[j].status = status }

\* the limits a starting worker set reads from the store
LoadedLimits ==
  [ threads |-> app_settings.download_threads,
    queue_size |-> app_settings.download_queue_size ]

\* A plausible slip: the worker count is compared after taking the job.
FreeWorker_OffByOne == Cardinality(JobsWithStatus(StatusDownloading)) <= pool.threads

FreeWorker == Cardinality(JobsWithStatus(StatusDownloading)) < pool.threads

QueueFull == Cardinality(JobsWithStatus(StatusPending)) >= pool.queue_size

SetJob(j, row) ==
  /\ pool_jobs' = [pool_jobs EXCEPT ![j] = row]
  /\ UNCHANGED <<pool, submit_result>>
  /\ UNCHANGED <<settingsVars, outsidePool>>

\* a download request: queued, or refused when the queue is full
download_submit(j) ==
  /\ j \notin PoolJobIds
  /\ IF QueueFull
       THEN /\ submit_result' = "backpressure"
            /\ UNCHANGED <<pool_jobs, resumed_at>>
       ELSE /\ submit_result' = "accepted"
            /\ pool_jobs' = (j :> NewDownloadJob) @@ pool_jobs
            /\ resumed_at' = (j :> NotResumed) @@ resumed_at
  /\ UNCHANGED pool
  /\ UNCHANGED <<settingsVars, outsidePool>>

\* a free worker takes a queued job; the size of the part becomes known
PoolStartJob(j, total) ==
  /\ j \in JobsWithStatus(StatusPending)
  /\ FreeWorker
  /\ SetJob(j, [pool_jobs[j] EXCEPT !.status = StatusDownloading,
                                    !.progress_total = total])
  /\ UNCHANGED resumed_at

PoolProgress(j) ==
  /\ j \in JobsWithStatus(StatusDownloading)
  /\ pool_jobs[j].progress_done < pool_jobs[j].progress_total
  /\ SetJob(j, [pool_jobs[j] EXCEPT !.progress_done = @ + 1])
  /\ UNCHANGED resumed_at

PoolFinish(j) ==
  /\ j \in JobsWithStatus(StatusDownloading)
  /\ pool_jobs[j].progress_done = pool_jobs[j].progress_total
  /\ SetJob(j, [pool_jobs[j] EXCEPT !.status = StatusDone])
  /\ UNCHANGED resumed_at

PoolFail(j) ==
  /\ j \in JobsWithStatus(StatusDownloading)
  /\ pool_jobs[j].progress_done < pool_jobs[j].progress_total
  /\ SetJob(j, [pool_jobs[j] EXCEPT !.status = StatusFailed,
                                    !.message = "download failed"])
  /\ UNCHANGED resumed_at

\* cooperative pause: the chunk in hand is finished and the offset kept
download_pause(j) ==
  /\ j \in JobsWithStatus(StatusDownloading)
  /\ pool_jobs[j].progress_done < pool_jobs[j].progress_total
  /\ SetJob(j, [pool_jobs[j] EXCEPT !.status = StatusPaused])
  /\ UNCHANGED resumed_at

\* A plausible slip: the resumed job starts over from byte zero.
download_resume_FromZero(j) ==
  /\ j \in JobsWithStatus(StatusPaused)
  /\ FreeWorker
  /\ SetJob(j, [pool_jobs[j] EXCEPT !.status = StatusDownloading,
                                    !.progress_done = 0])
  /\ resumed_at' = [resumed_at EXCEPT ![j] = pool_jobs[j].progress_done]

\* the button of a paused record (record.status === 4): the job is reopened
\* at the offset kept, by a worker that is free
download_resume(j) ==
  /\ j \in JobsWithStatus(StatusPaused)
  /\ FreeWorker
  /\ SetJob(j, [pool_jobs[j] EXCEPT !.status = StatusDownloading])
  /\ resumed_at' = [resumed_at EXCEPT ![j] = pool_jobs[j].progress_done]

\* the button of a failed record (record.status === 3): queued again from zero
download_retry(j) ==
  /\ j \in JobsWithStatus(StatusFailed)
  /\ SetJob(j, [pool_jobs[j] EXCEPT !.status = StatusPending,
                                    !.progress_done = 0,
                                    !.message = NULL])
  /\ resumed_at' = [resumed_at EXCEPT ![j] = NotResumed]

\* the workers are started afresh, with the limits then in the store
PoolRestart ==
  /\ JobsWithStatus(StatusDownloading) = {}
  /\ pool # LoadedLimits
  /\ pool' = LoadedLimits
  /\ UNCHANGED <<pool_jobs, resumed_at, submit_result>>
  /\ UNCHANGED <<settingsVars, outsidePool>>

PoolInit ==
  /\ pool = [ threads |-> DefaultDownloadThreads,
              queue_size |-> DefaultDownloadQueueSize ]
  /\ pool_jobs = EmptyObject
  /\ resumed_at = EmptyObject
  /\ submit_result = "none"

PoolNext ==
  \/ \E t \in ThreadChoices, q \in QueueSizeChoices :
       handleSave(t, q, app_settings.submission_upload_concurrency)
  \/ PoolRestart
  \/ \E j \in DownloadJobs : download_submit(j)
  \/ \E j \in DownloadJobs, total \in 1..MaxDownloadBytes : PoolStartJob(j, total)
  \/ \E j \in DownloadJobs : PoolProgress(j)
  \/ \E j \in DownloadJobs : PoolFinish(j)
  \/ \E j \in DownloadJobs : PoolFail(j)
  \/ \E j \in DownloadJobs : download_pause(j)
  \/ \E j \in DownloadJobs : download_resume(j)
  \/ \E j \in DownloadJobs : download_retry(j)

(***************************************************************************)
(* Properties of the download pool.                                         *)
(***************************************************************************)
C16_NotBelowResumeOffset ==
  \A j \in PoolJobIds :
    resumed_at[j] # NotResumed => pool_jobs[j].progress_done >= resumed_at[j]

C16_ResumeKeepsOffset ==
  \A j \in PoolJobIds :
    /\ pool_jobs[j].status = StatusPaused =>
         /\ pool_jobs'[j].progress_done = pool_jobs[j].progress_done
         /\ pool_jobs'[j].status \in {StatusPaused, StatusDownloading}
    /\ pool_jobs[j].status \in {StatusPaused, StatusDownloading} =>
         pool_jobs'[j].progress_done >= pool_jobs[j].progress_done

\* C16: a download that was paused and resumed goes on from the offset kept
\* at the pause: the resume leaves progress_done as it was, the count is
\* never below the offset of the resume afterwards, and while the job is
\* paused or downloading the count only grows.
C16_ResumeContinuesFromOffset ==
  /\ []C16_NotBelowResumeOffset
  /\ [][C16_ResumeKeepsOffset]_vars

\* a job paused after its first byte, resumed, and finished past that offset
C16_Witness ==
  \E j \in PoolJobIds :
    /\ resumed_at[j] > 0
    /\ pool_jobs[j].status = StatusDone
    /\ pool_jobs[j].progress_done > resumed_at[j]

C17_FailedKeepsMessage ==
  \A j \in PoolJobIds :
    pool_jobs[j].status = StatusFailed <=> pool_jobs[j].message # NULL

C17_OnlyExplicitRetry ==
  \A j \in PoolJobIds :
    pool_jobs[j].status = StatusFailed =>
      \/ pool_jobs'[j] = pool_jobs[j]
      \/ /\ download_retry(j)
         /\ pool_jobs'[j].status = StatusPending

C18_WithinConcurrency ==
  Cardinality(JobsWithStatus(StatusDownloading)) <= pool.threads

C18_FullQueueRejects ==
  \A j \in DownloadJobs :
    ( /\ Cardinality(JobsWithStatus(StatusPending)) >= pool.queue_size
      /\ download_submit(j) ) =>
        /\ submit_result' = "backpressure"
        /\ pool_jobs' = pool_jobs

SyncJobs == {"sync-a", "sync-b"}

\* A plausible slip: finished jobs are also listed with the waiting ones.
syncTabs_SuccessAlsoPending ==
  << [ key |-> "pending",   statuses |-> {"PENDING", "PAUSED", "SUCCESS"} ],
     [ key |-> "uploading", statuses |-> {"UPLOADING"} ],
     [ key |-> "completed", statuses |-> {"SUCCESS"} ],
     [ key |-> "failed",    statuses |-> {"FAILED", "CANCELLED"} ] >>

syncTabs ==
  << [ key |-> "pending",   statuses |-> {"PENDING", "PAUSED"} ],
     [ key |-> "uploading", statuses |-> {"UPLOADING"} ],
     [ key |-> "completed", statuses |-> {"SUCCESS"} ],
     [ key |-> "failed",    statuses |-> {"FAILED", "CANCELLED"} ] >>

TabKeys == { syncTabs[i].key : i \in DOMAIN syncTabs }

\* syncTabs.find((tab) => tab.key === key): the first tab with the key,
\* as a sequence of no or one tab
FindTab(key) ==
  LET found == { i \in DOMAIN syncTabs : syncTabs[i].key = key } IN
    IF found = {} THEN <<>>
    ELSE << syncTabs[CHOOSE i \in found : \A k \in found : i <= k] >>

\* filteredTasks, for the tab with the given key
filteredTasksFor(key) ==
  IF FindTab(key) = <<>>
    THEN DOMAIN tasks
    ELSE { t \in DOMAIN tasks : tasks[t] \in FindTab(key)[1].statuses }

filteredTasks == filteredTasksFor(syncTab)

canPause(status) == status \in {"PENDING", "UPLOADING"}

\* A plausible slip: a finished job is left without an action.
canRetry_WithoutSuccess(status) == status \in {"FAILED", "CANCELLED", "PAUSED"}

canRetry(status) == status \in {"FAILED", "CANCELLED", "PAUSED", "SUCCESS"}

SyncJobIds == DOMAIN sync_tasks

\* baidu_sync_retry: a finished, failed, cancelled or paused job is queued again
baidu_sync_retry(t) ==
  IF t \in SyncJobIds /\ sync_tasks[t] \in {"FAILED", "CANCELLED", "PAUSED", "SUCCESS"}
    THEN [sync_tasks EXCEPT ![t] = "PENDING"]
    ELSE sync_tasks

\* A plausible slip: the pause command does not look at the job's status.
baidu_sync_pause_Unchecked(t) ==
  IF t \in SyncJobIds THEN [sync_tasks EXCEPT ![t] = "PAUSED"] ELSE sync_tasks

\* baidu_sync_pause: a waiting or uploading job is paused
baidu_sync_pause(t) ==
  IF t \in SyncJobIds /\ sync_tasks[t] \in {"PENDING", "UPLOADING"}
    THEN [sync_tasks EXCEPT ![t] = "PAUSED"]
    ELSE sync_tasks

\* baidu_sync_delete: the job record is removed
baidu_sync_delete(t) == [ k \in SyncJobIds \ {t} |-> sync_tasks[k] ]

\* a finished artifact is opted into mirroring
SyncEnqueue(t) ==
  /\ t \notin SyncJobIds
  /\ sync_tasks' = (t :> "PENDING") @@ sync_tasks
  /\ UNCHANGED <<tasks, syncTab>>
  /\ UNCHANGED outsideSync

SyncMove(t, from, to) ==
  /\ t \in SyncJobIds
  /\ sync_tasks[t] = from
  /\ sync_tasks' = [sync_tasks EXCEPT ![t] = to]
  /\ UNCHANGED <<tasks, syncTab>>
  /\ UNCHANGED outsideSync

SyncStart(t) == SyncMove(t, "PENDING", "UPLOADING")

SyncSucceed(t) == SyncMove(t, "UPLOADING", "SUCCESS")

SyncFail(t) == SyncMove(t, "UPLOADING", "FAILED")

SyncCancel(t) == SyncMove(t, "UPLOADING", "CANCELLED")

\* loadTasks, on mount and every three seconds
loadTasks ==
  /\ tasks' = sync_tasks
  /\ UNCHANGED <<sync_tasks, syncTab>>
  /\ UNCHANGED outsideSync

setSyncTab(key) ==
  /\ syncTab' = key
  /\ UNCHANGED <<sync_tasks, tasks>>
  /\ UNCHANGED outsideSync

\* the buttons of a listed job act on the store and reload the list
handleRetry(t) ==
  /\ t \in filteredTasks
  /\ canRetry(tasks[t])
  /\ sync_tasks' = baidu_sync_retry(t)
  /\ tasks' = sync_tasks'
  /\ UNCHANGED syncTab
  /\ UNCHANGED outsideSync

handlePause(t) ==
  /\ t \in filteredTasks
  /\ canPause(tasks[t])
  /\ sync_tasks' = baidu_sync_pause(t)
  /\ tasks' = sync_tasks'
  /\ UNCHANGED syncTab
  /\ UNCHANGED outsideSync

handleDelete(t) ==
  /\ t \in filteredTasks
  /\ sync_tasks' = baidu_sync_delete(t)
  /\ tasks' = sync_tasks'
  /\ UNCHANGED syncTab
  /\ UNCHANGED outsideSync

SyncInit ==
  /\ sync_tasks = EmptyObject
  /\ tasks = EmptyObject
  /\ syncTab = "pending"

SyncNext ==
  \/ \E t \in SyncJobs : SyncEnqueue(t)
  \/ \E t \in SyncJobs : SyncStart(t)
  \/ \E t \in SyncJobs : SyncSucceed(t)
  \/ \E t \in SyncJobs : SyncFail(t)
  \/ \E t \in SyncJobs : SyncCancel(t)
  \/ loadTasks
  \/ \E key \in TabKeys : setSyncTab(key)
  \/ \E t \in SyncJobs : handleRetry(t)
  \/ \E t \in SyncJobs : handlePause(t)
  \/ \E t \in SyncJobs : handleDelete(t)

(***************************************************************************)
(* Properties of the sync mirror.                                           *)
(***************************************************************************)
C19_AllowedMove(t) ==
  LET from == sync_tasks[t]
      to   == sync_tasks'[t]
  IN  \/ to = from
      \/ from = "PENDING" /\ to = "UPLOADING"
      \/ from = "UPLOADING" /\ to \in {"SUCCESS", "FAILED", "CANCELLED"}
      \/ from \in {"PENDING", "UPLOADING"} /\ to = "PAUSED" /\ handlePause(t)
      \/ /\ from \in {"SUCCESS", "FAILED", "CANCELLED", "PAUSED"}
         /\ to = "PENDING"
         /\ handleRetry(t)

\* C19: a mirror job's status moves only from PENDING to UPLOADING and from
\* UPLOADING to SUCCESS, FAILED or CANCELLED; it becomes PAUSED only from
\* PENDING or UPLOADING and only by the user's pause; and out of SUCCESS,
\* FAILED, CANCELLED or PAUSED it moves only by the user's retry, to PENDING.
C19_SyncLifecycle ==
  [][\A t \in SyncJobIds \cap DOMAIN sync_tasks' : C19_AllowedMove(t)]_vars

\* one job was paused by the user and is listed as such while another has
\* been mirrored
C19_Witness ==
  \E t, u \in SyncJobIds :
    /\ sync_tasks[t] = "PAUSED"
    /\ t \in DOMAIN tasks
    /\ tasks[t] = "PAUSED"
    /\ sync_tasks[u] = "SUCCESS"

C20_Statuses == {"PENDING", "PAUSED", "UPLOADING", "SUCCESS", "FAILED", "CANCELLED"}

\* C20: every listed job whose status is one of the six is shown under
\* exactly one tab; a SUCCESS job is shown under the completed tab, and the
\* completed tab shows SUCCESS jobs only.
C20_OneTabPerStatus ==
  /\ \A t \in DOMAIN tasks :
       tasks[t] \in C20_Statuses =>
         Cardinality({ key \in TabKeys : t \in filteredTasksFor(key) }) = 1
  /\ \A t \in DOMAIN tasks :
       tasks[t] = "SUCCESS" <=> t \in filteredTasksFor("completed")
  /\ syncTab = "completed" => \A t \in filteredTasks : tasks[t] = "SUCCESS"

\* the completed tab is open on a list holding a mirrored job and a job of
\* another status, and shows the mirrored one alone
C20_Witness ==
  /\ syncTab = "completed"
  /\ \E t, u \in DOMAIN tasks :
       /\ tasks[t] = "SUCCESS"
       /\ tasks[u] \in {"PAUSED", "FAILED"}
       /\ filteredTasks = {t}

(***************************************************************************)
(* Segment estimate of the download form, and the MERGE and SEGMENT steps   *)
(* of the request it sends. A time field holds HH:MM:SS, modelled as the    *)
(* triple of its numbers, or is blank.                                      *)
(***************************************************************************)
Blank == <<>>

\* seconds of the parts a video offers
PartDurations == {90, 120}

\* what a user leaves or types in a time field
TimeChoices == { Blank, <<0, 0, 0>>, <<0, 0, 10>>, <<0, 1, 30>>, <<0, 2, 0>> }

formatDurationHms(seconds) ==
  LET totalSeconds == IF seconds > 0 THEN seconds ELSE 0 IN
    << totalSeconds \div 3600, (totalSeconds % 3600) \div 60, totalSeconds % 60 >>

timeToSeconds(value) ==
  IF value = Blank THEN 0
  ELSE IF Len(value) # 3 THEN 0
  ELSE value[1] * 3600 + value[2] * 60 + value[3]

\* A plausible slip: only the number of fields is looked at.
isValidTimeFormat_FieldCountOnly(value) ==
  IF value = Blank THEN TRUE ELSE Len(value) = 3

isValidTimeFormat(value) ==
  IF value = Blank THEN TRUE
  ELSE IF Len(value) # 3 THEN FALSE
  ELSE value[1] <= 23 /\ value[2] <= 59 /\ value[3] <= 59

\* buildSelectedPartsConfig: a part starts with no trim
NewPartConfig(duration) ==
  [ duration |-> duration,
    startTime |-> <<0, 0, 0>>,
    endTime |-> formatDurationHms(duration) ]

Ceil(a, b) == (a + b - 1) \div b

RECURSIVE SumOver(_, _)
SumOver(f, n) == IF n = 0 THEN 0 ELSE f[n] + SumOver(f, n - 1)

\* totalClipSeconds: selectedPartsConfig.reduce over Math.max(0, end - start)
totalClipSeconds ==
  SumOver([ i \in DOMAIN selectedPartsConfig |->
              LET start == timeToSeconds(selectedPartsConfig[i].startTime)
                  end   == timeToSeconds(selectedPartsConfig[i].endTime)
              IN  IF end - start > 0 THEN end - start ELSE 0 ],
          Len(selectedPartsConfig))

estimatedSegments ==
  IF segmentationEnabled /\ segmentDurationSeconds > 0
    THEN Ceil(totalClipSeconds, segmentDurationSeconds)
    ELSE 0

\* validateIntegrationForm, the part that reads the trim fields
PartTimesValid ==
  \A i \in DOMAIN selectedPartsConfig :
    LET part == selectedPartsConfig[i] IN
      /\ isValidTimeFormat(part.startTime)
      /\ isValidTimeFormat(part.endTime)
      /\ IF part.startTime # Blank /\ part.endTime # Blank
           THEN timeToSeconds(part.startTime) < timeToSeconds(part.endTime)
           ELSE TRUE

NothingSent == submissionRequest = <<>>

\* the parts of a video are ticked
SelectParts(durations) ==
  /\ NothingSent
  /\ selectedPartsConfig = <<>>
  /\ selectedPartsConfig' = [ i \in DOMAIN durations |-> NewPartConfig(durations[i]) ]
  /\ UNCHANGED <<submissionRequest, estimateShown, merged_duration>>
  /\ UNCHANGED outsideEstimate

updatePartConfig(i, field, value) ==
  /\ NothingSent
  /\ i \in DOMAIN selectedPartsConfig
  /\ selectedPartsConfig[i][field] # value
  /\ selectedPartsConfig' = [selectedPartsConfig EXCEPT ![i][field] = value]
  /\ UNCHANGED <<submissionRequest, estimateShown, merged_duration>>
  /\ UNCHANGED outsideEstimate

\* handleIntegrationDownload, the request's videoParts and workflowConfig;
\* a blank field is sent as null (kept as Blank)
SubmitVideoParts ==
  /\ NothingSent
  /\ selectedPartsConfig # <<>>
  /\ SegmentDurationValid
  /\ PartTimesValid
  /\ submissionRequest' =
       << [ videoParts |-> selectedPartsConfig,
            workflowConfig |->
              buildWorkflowConfig(segmentationEnabled, segmentDurationSeconds, TRUE) ] >>
  /\ estimateShown' = estimatedSegments
  /\ UNCHANGED <<selectedPartsConfig, merged_duration>>
  /\ UNCHANGED outsideEstimate

\* CLIP: the seconds of a part that its trims keep; an absent trim keeps
\* the part up to that end, and no trim reaches past the part
ClippedSeconds(part) ==
  LET start == IF part.startTime = Blank THEN 0
               ELSE Min(timeToSeconds(part.startTime), part.duration)
      end   == IF part.endTime = Blank THEN part.duration
               ELSE Min(timeToSeconds(part.endTime), part.duration)
  IN  IF end - start > 0 THEN end - start ELSE 0

\* CLIP and MERGE: the clips are concatenated into one merged video
MergeStep ==
  /\ submissionRequest # <<>>
  /\ merged_duration = NotMerged
  /\ LET parts == submissionRequest[1].videoParts IN
       merged_duration' =
         SumOver([ i \in DOMAIN parts |-> ClippedSeconds(parts[i]) ], Len(parts))
  /\ UNCHANGED <<selectedPartsConfig, submissionRequest, estimateShown>>
  /\ UNCHANGED outsideEstimate

\* task_output_segment: part_order NOT NULL, upload_status NOT NULL, cid
\* (0: NULL)
NewOutputSegment(partOrder) ==
  [ part_order |-> partOrder, upload_status |-> "PENDING", cid |-> 0 ]

\* SEGMENT: the merged video is split into parts of the configured length
SegmentStep ==
  /\ submissionRequest # <<>>
  /\ merged_duration > 0
  /\ task_output_segment = <<>>
  /\ LET t == ParseWorkflowConfig(submissionRequest[1].workflowConfig) IN
       /\ t.enableSegmentation
       /\ task_output_segment' =
            [ k \in 1..Ceil(merged_duration, t.segmentDurationSeconds) |->
                NewOutputSegment(k - 1) ]
  /\ UNCHANGED <<submission_task, chunk_failures, upload_limit, remote_videos>>
  /\ UNCHANGED <<estimateVars, outsideEstimateAndPublish>>

EstimateInit ==
  /\ selectedPartsConfig = <<>>
  /\ submissionRequest = <<>>
  /\ estimateShown = 0
  /\ merged_duration = NotMerged

(***************************************************************************)
(* Upload of a task's segments and the publish call. Segments upload        *)
(* independently, a bounded number at a time; the first that succeeds       *)
(* publishes the remote video, the later ones are added to it.              *)
(***************************************************************************)
\* what a user types into the upload concurrency field
UploadConcurrencyChoices == {0, 1, 2, 6}

NewSubmissionTask == [ status |-> "PENDING", bvid |-> 0 ]

SegmentIds == DOMAIN task_output_segment

SegmentsWithStatus(status) ==
  { k \in SegmentIds : task_output_segment[k].upload_status = status }

FreeUploadWorker == Cardinality(SegmentsWithStatus("UPLOADING")) < upload_limit

\* the task has succeeded when every one of its segments has
TaskStatusFor(rows) ==
  IF rows # <<>> /\ \A k \in DOMAIN rows : rows[k].upload_status = "SUCCESS"
    THEN "COMPLETED"
    ELSE "UPLOADING"

\* A plausible slip: every finished segment publishes a video of its own.
ShouldPublish_Always == TRUE

\* the publish call is for the first segment that succeeds
ShouldPublish == submission_task.bvid = 0

\* A plausible slip: a part is added behind the parts already there.
AddPart_Appended(parts, part) == Append(parts, part)

\* a part is added at its place by part_order
AddPart(parts, part) ==
  LET before == SelectSeq(parts, LAMBDA p : p.part_order < part.part_order)
      after  == SelectSeq(parts, LAMBDA p : p.part_order >= part.part_order)
  IN  before \o <<part>> \o after

\* the content id the platform hands out next
NextCid == Cardinality({ k \in SegmentIds : task_output_segment[k].cid # 0 }) + 1

\* the SEGMENT step has left its rows and the task goes on to upload them
SegmentsProduced(n) ==
  /\ task_output_segment = <<>>
  /\ task_output_segment' = [ k \in 1..n |-> NewOutputSegment(k - 1) ]
  /\ chunk_failures' = [ k \in 1..n |-> 0 ]
  /\ submission_task' = [submission_task EXCEPT !.status = "UPLOADING"]
  /\ UNCHANGED <<upload_limit, remote_videos>>
  /\ UNCHANGED <<settingsVars, outsideSettingsAndPublish>>

\* the upload workers are started, with the concurrency then in the store
UploadWorkersStart ==
  /\ SegmentsWithStatus("UPLOADING") = {}
  /\ upload_limit # app_settings.submission_upload_concurrency
  /\ upload_limit' = app_settings.submission_upload_concurrency
  /\ UNCHANGED <<task_output_segment, submission_task, chunk_failures, remote_videos>>
  /\ UNCHANGED <<settingsVars, outsideSettingsAndPublish>>

StartSegmentUpload(k) ==
  /\ k \in SegmentsWithStatus("PENDING")
  /\ FreeUploadWorker
  /\ task_output_segment' = [task_output_segment EXCEPT ![k].upload_status = "UPLOADING"]
  /\ UNCHANGED <<submission_task, chunk_failures, upload_limit, remote_videos>>
  /\ UNCHANGED <<settingsVars, outsideSettingsAndPublish>>

\* A plausible slip: a segment out of retries takes the segments still
\* uploading down with it.
ChunkFailure_FailsSiblings(k) ==
  /\ k \in SegmentsWithStatus("UPLOADING")
  /\ chunk_failures' = [chunk_failures EXCEPT ![k] = @ + 1]
  /\ task_output_segment' =
       IF chunk_failures[k] + 1 >= MaxChunkAttempts
         THEN [ j \in SegmentIds |->
                  IF task_output_segment[j].upload_status = "UPLOADING"
                    THEN [task_output_segment[j] EXCEPT !.upload_status = "FAILED"]
                    ELSE task_output_segment[j] ]
         ELSE task_output_segment
  /\ UNCHANGED <<submission_task, upload_limit, remote_videos>>
  /\ UNCHANGED <<settingsVars, outsideSettingsAndPublish>>

\* a chunk of the segment fails; out of attempts, the segment's upload fails
ChunkFailure(k) ==
  /\ k \in SegmentsWithStatus("UPLOADING")
  /\ chunk_failures' = [chunk_failures EXCEPT ![k] = @ + 1]
  /\ task_output_segment' =
       IF chunk_failures[k] + 1 >= MaxChunkAttempts
         THEN [task_output_segment EXCEPT ![k].upload_status = "FAILED"]
         ELSE task_output_segment
  /\ UNCHANGED <<submission_task, upload_limit, remote_videos>>
  /\ UNCHANGED <<settingsVars, outsideSettingsAndPublish>>

\* the segment's upload completes: the platform's cid is kept on the row,
\* and the part is published, as a new video or into the task's video
SegmentUploaded(k) ==
  /\ k \in SegmentsWithStatus("UPLOADING")
  /\ LET part == [ part_order |-> task_output_segment[k].part_order, cid |-> NextCid ]
         rows == [task_output_segment EXCEPT ![k].upload_status = "SUCCESS",
                                             ![k].cid = NextCid]
     IN  /\ task_output_segment' = rows
         /\ IF ShouldPublish
              THEN /\ remote_videos' = Append(remote_videos, <<part>>)
                   /\ submission_task' =
                        [ status |-> TaskStatusFor(rows), bvid |-> Len(remote_videos) + 1 ]
              ELSE /\ remote_videos' =
                        [remote_videos EXCEPT ![submission_task.bvid] = AddPart(@, part)]
                   /\ submission_task' =
                        [submission_task EXCEPT !.status = TaskStatusFor(rows)]
  /\ UNCHANGED <<chunk_failures, upload_limit>>
  /\ UNCHANGED <<settingsVars, outsideSettingsAndPublish>>

\* explicit retry of a failed segment's upload
RetrySegmentUpload(k) ==
  /\ k \in SegmentsWithStatus("FAILED")
  /\ task_output_segment' = [task_output_segment EXCEPT ![k].upload_status = "PENDING"]
  /\ chunk_failures' = [chunk_failures EXCEPT ![k] = 0]
  /\ UNCHANGED <<submission_task, upload_limit, remote_videos>>
  /\ UNCHANGED <<settingsVars, outsideSettingsAndPublish>>

PublishInit ==
  /\ task_output_segment = <<>>
  /\ submission_task = NewSubmissionTask
  /\ chunk_failures = <<>>
  /\ upload_limit = DefaultUploadConcurrency
  /\ remote_videos = <<>>

PublishNext ==
  \/ \E u \in UploadConcurrencyChoices :
       handleSave(app_settings.download_threads, app_settings.download_queue_size, u)
  \/ UploadWorkersStart
  \/ \E n \in 1..MaxSegments : SegmentsProduced(n)
  \/ \E k \in 1..MaxSegments : StartSegmentUpload(k)
  \/ \E k \in 1..MaxSegments : ChunkFailure(k)
  \/ \E k \in 1..MaxSegments : SegmentUploaded(k)
  \/ \E k \in 1..MaxSegments : RetrySegmentUpload(k)


EstimateNext ==
  \/ \E b \in BOOLEAN : SetSegmentationEnabled(b)
  \/ \E v \in SegmentDurationChoices : SetSegmentDuration(v)
  \/ \E n \in 1..MaxParts : \E durations \in [1..n -> PartDurations] : SelectParts(durations)
  \/ \E i \in 1..MaxParts, field \in {"startTime", "endTime"}, value \in TimeChoices :
       updatePartConfig(i, field, value)
  \/ SubmitVideoParts
  \/ MergeStep
  \/ SegmentStep

(***************************************************************************)
(* Properties of the segment estimate.                                      *)
(***************************************************************************)
\* C15: with segmentation enabled the SEGMENT step leaves exactly
\* N = ceil(merged duration / segment duration) rows, their part_order being
\* 0..N-1, and the estimate the form showed when the request was sent is
\* that N.
C15_EstimateEqualsSegments ==
  task_output_segment # <<>> =>
    LET N == Len(task_output_segment)
        t == ParseWorkflowConfig(submissionRequest[1].workflowConfig)
    IN  /\ t.enableSegmentation
        /\ N = Ceil(merged_duration, t.segmentDurationSeconds)
        /\ \A k \in 1..N : task_output_segment[k].part_order = k - 1
        /\ estimateShown = N

(***************************************************************************)
(* Properties of the segment uploads and the publish call.                  *)
(***************************************************************************)
C11_FailureIsLocal ==
  \A k \in SegmentIds :
    ( /\ task_output_segment[k].upload_status # "FAILED"
      /\ task_output_segment'[k].upload_status = "FAILED" ) =>
        /\ chunk_failures'[k] >= MaxChunkAttempts
        /\ \A j \in SegmentIds \ {k} : task_output_segment'[j] = task_output_segment[j]
        /\ submission_task' = submission_task

C11_SuccessNeedsAll ==
  submission_task.status = "COMPLETED" <=>
    /\ task_output_segment # <<>>
    /\ \A k \in SegmentIds : task_output_segment[k].upload_status = "SUCCESS"

C11_SiblingCanSucceed ==
  \A k \in SegmentsWithStatus("UPLOADING") : ENABLED SegmentUploaded(k)

\* C11: a segment whose chunk is out of attempts fails alone: the step that
\* fails it changes no other segment and not the task, a segment that is
\* uploading can always complete, and the task is completed exactly when
\* every one of its segments has succeeded.
C11_OnlyTheArtifactFails ==
  /\ [][C11_FailureIsLocal]_vars
  /\ []C11_SuccessNeedsAll
  /\ []C11_SiblingCanSucceed

\* one segment has failed out of attempts, its sibling has succeeded and
\* is published, and the task is not completed
C11_Witness ==
  \E j, k \in SegmentIds :
    /\ task_output_segment[j].upload_status = "FAILED"
    /\ chunk_failures[j] >= MaxChunkAttempts
    /\ task_output_segment[k].upload_status = "SUCCESS"
    /\ submission_task.bvid # 0
    /\ submission_task.status # "COMPLETED"

C12_RemoteIdKept ==
  submission_task.bvid # 0 => submission_task'.bvid = submission_task.bvid

C12_OneRemoteVideo ==
  /\ Len(remote_videos) <= 1
  /\ submission_task.bvid = 0 <=> SegmentsWithStatus("SUCCESS") = {}
  /\ submission_task.bvid # 0 =>
       /\ submission_task.bvid \in DOMAIN remote_videos
       /\ \A k \in SegmentsWithStatus("SUCCESS") :
            \E i \in DOMAIN remote_videos[submission_task.bvid] :
              remote_videos[submission_task.bvid][i] =
                [ part_order |-> task_output_segment[k].part_order,
                  cid |-> task_output_segment[k].cid ]

InPartOrder(parts) ==
  \A i, j \in DOMAIN parts : i < j => parts[i].part_order < parts[j].part_order

\* C14: the segments uploading at once never outnumber the upload
\* concurrency, which is the saved setting (between 1 and 5), and the parts
\* of the remote video stand in part_order, whatever order the uploads
\* completed in.
C14_BoundedAndOrdered ==
  /\ Cardinality(SegmentsWithStatus("UPLOADING")) <= upload_limit
  /\ upload_limit >= UploadConcurrencyFloor
  /\ upload_limit <= UploadConcurrencyCap
  /\ \A v \in DOMAIN remote_videos : InPartOrder(remote_videos[v])

\* with a concurrency below the number of segments, the later segment was
\* uploaded first (it holds the smaller cid) and still comes second
C14_Witness ==
  /\ upload_limit < Len(task_output_segment)
  /\ \E v \in DOMAIN remote_videos :
       /\ Len(remote_videos[v]) >= 2
       /\ remote_videos[v][1].cid > remote_videos[v][2].cid
       /\ remote_videos[v][1].part_order < remote_videos[v][2].part_order

(***************************************************************************)
(* The relational store: schema.sql. A table is a set of rows; the script   *)
(* runs with PRAGMA foreign_keys = ON, so a child row needs its parent and  *)
(* a delete follows the ON DELETE action of every key referencing the row.  *)
(***************************************************************************)
StoreTaskIds == {"task-1", "task-2"}
StoreInstanceIds == {"inst-1"}
RowIds == 1..MaxRows

PrimaryKey ==
  [ submission_task |-> "task_id",
    merged_video |-> "id",
    task_output_segment |-> "segment_id",
    task_source_video |-> "id",
    workflow_instances |-> "instance_id",
    workflow_steps |-> "step_id",
    workflow_configurations |-> "config_id",
    app_settings |-> "key" ]

\* A plausible slip: the key of workflow_steps declared without its action
\* (SQLite's default, NO ACTION, modelled as leaving the child rows).
ForeignKeys_StepsWithoutCascade ==
  { [child |-> "merged_video", column |-> "task_id",
     parent |-> "submission_task", on_delete |-> "CASCADE"],
    [child |-> "task_output_segment", column |-> "task_id",
     parent |-> "submission_task", on_delete |-> "CASCADE"],
    [child |-> "task_source_video", column |-> "task_id",
     parent |-> "submission_task", on_delete |-> "CASCADE"],
    [child |-> "workflow_instances", column |-> "task_id",
     parent |-> "submission_task", on_delete |-> "CASCADE"],
    [child |-> "workflow_steps", column |-> "instance_id",
     parent |-> "workflow_instances", on_delete |-> "NO ACTION"] }

ForeignKeys ==
  { [child |-> "merged_video", column |-> "task_id",
     parent |-> "submission_task", on_delete |-> "CASCADE"],
    [child |-> "task_output_segment", column |-> "task_id",
     parent |-> "submission_task", on_delete |-> "CASCADE"],
    [child |-> "task_source_video", column |-> "task_id",
     parent |-> "submission_task", on_delete |-> "CASCADE"],
    [child |-> "workflow_instances", column |-> "task_id",
     parent |-> "submission_task", on_delete |-> "CASCADE"],
    [child |-> "workflow_steps", column |-> "instance_id",
     parent |-> "workflow_instances", on_delete |-> "CASCADE"] }

EmptyDb == [table \in DOMAIN PrimaryKey |-> {}]

Keys(d, table) == {r[PrimaryKey[table]] : r \in d[table]}

\* every stored row, with its table
Rows(d) == UNION {{<<table, r>> : r \in d[table]} : table \in DOMAIN d}

\* the rows of fk.child whose fk.column names one of the parent keys
Referencing(d, fk, keys) == {r \in d[fk.child] : r[fk.column] \in keys}

RECURSIVE DeleteRows(_, _, _)
RECURSIVE FollowKeys(_, _, _)
\* DELETE FROM table WHERE <primary key> IN keys
DeleteRows(d, table, keys) ==
  FollowKeys([d EXCEPT ![table] = {r \in @ : r[PrimaryKey[table]] \notin keys}],
             {fk \in ForeignKeys : fk.parent = table}, keys)

\* the ON DELETE action of each key that references the deleted rows
FollowKeys(d, fks, keys) ==
  IF fks = {} THEN d
  ELSE LET fk == CHOOSE f \in fks : TRUE
           gone == {r[PrimaryKey[fk.child]] : r \in Referencing(d, fk, keys)}
       IN FollowKeys(IF fk.on_delete = "CASCADE"
                       THEN DeleteRows(d, fk.child, gone)
                       ELSE d,
                     fks \ {fk}, keys)

\* INSERT: the primary key is new and every foreign key names a stored parent
CanInsert(d, table, row) ==
  /\ row[PrimaryKey[table]] \notin Keys(d, table)
  /\ \A fk \in ForeignKeys :
       fk.child = table => row[fk.column] \in Keys(d, fk.parent)

InsertRow(table, row) ==
  /\ schema_runs > 0
  /\ CanInsert(db, table, row)
  /\ db' = [db EXCEPT ![table] = @ \cup {row}]
  /\ UNCHANGED <<schema_runs, deleted_from, outsideStore>>

InsertTask(t) == InsertRow("submission_task", [task_id |-> t])

InsertMergedVideo(id, t) == InsertRow("merged_video", [id |-> id, task_id |-> t])

InsertOutputSegment(id, t) ==
  InsertRow("task_output_segment", [segment_id |-> id, task_id |-> t])

InsertSourceVideo(id, t) ==
  InsertRow("task_source_video", [id |-> id, task_id |-> t])

InsertInstance(i, t) ==
  InsertRow("workflow_instances", [instance_id |-> i, task_id |-> t])

InsertStep(id, i) == InsertRow("workflow_steps", [step_id |-> id, instance_id |-> i])

DeleteTask(t) ==
  /\ t \in Keys(db, "submission_task")
  /\ db' = DeleteRows(db, "submission_task", {t})
  /\ deleted_from' = {row[1] : row \in Rows(db) \ Rows(db')}
  /\ UNCHANGED <<schema_runs, outsideStore>>

DeleteInstance(i) ==
  /\ i \in Keys(db, "workflow_instances")
  /\ db' = DeleteRows(db, "workflow_instances", {i})
  /\ deleted_from' = {row[1] : row \in Rows(db) \ Rows(db')}
  /\ UNCHANGED <<schema_runs, outsideStore>>

StoreInit ==
  /\ db = EmptyDb
  /\ schema_runs = 0
  /\ deleted_from = {}

(***************************************************************************)
(* The seed rows of schema.sql and the script as a whole. Every INSERT of    *)
(* the script is INSERT OR IGNORE on the table's primary key.                *)
(***************************************************************************)
SeedConfig1 ==
  [ config_id |-> 1, config_type |-> "SYSTEM_DEFAULT",
    configuration_data |-> Seed1Blob, version |-> 1 ]

SeedConfig2 ==
  [ config_id |-> 2, config_type |-> "SYSTEM_DEFAULT",
    configuration_data |-> Seed2Blob, version |-> 1 ]

SettingRow(key, value) == [key |-> key, value |-> value]

\* the INSERT statements of the script, in the script's order
SchemaInserts ==
  << [table |-> "workflow_configurations", row |-> SeedConfig1],
     [table |-> "app_settings",
      row |-> SettingRow("download_threads", DefaultDownloadThreads)],
     [table |-> "app_settings",
      row |-> SettingRow("download_queue_size", DefaultDownloadQueueSize)],
     [table |-> "app_settings",
      row |-> SettingRow("submission_upload_concurrency", DefaultUploadConcurrency)],
     [table |-> "workflow_configurations", row |-> SeedConfig2] >>

\* A plausible slip: INSERT OR REPLACE, which overwrites the stored row.
InsertOrIgnore_Replace(d, table, row) ==
  [d EXCEPT ![table] =
     {r \in @ : r[PrimaryKey[table]] # row[PrimaryKey[table]]} \cup {row}]

InsertOrIgnore(d, table, row) ==
  IF row[PrimaryKey[table]] \in Keys(d, table)
    THEN d
    ELSE [d EXCEPT ![table] = @ \cup {row}]

RECURSIVE RunInserts(_, _)
RunInserts(d, inserts) ==
  IF inserts = <<>> THEN d
  ELSE RunInserts(InsertOrIgnore(d, Head(inserts).table, Head(inserts).row),
                  Tail(inserts))

RunSchema ==
  /\ schema_runs < MaxSchemaRuns
  /\ db' = RunInserts(db, SchemaInserts)
  /\ schema_runs' = schema_runs + 1
  /\ UNCHANGED <<deleted_from, outsideStore>>

SettingKeys == {r.key : r \in db.app_settings}

\* the values a user saves over a seeded setting
SettingValueChoices == {1, DefaultDownloadThreads}

\* UPDATE app_settings SET value = ... WHERE key = ...
update_download_settings(key, value) ==
  /\ key \in SettingKeys
  /\ db' = [db EXCEPT !["app_settings"] =
              {r \in @ : r.key # key} \cup {SettingRow(key, value)}]
  /\ UNCHANGED <<schema_runs, deleted_from, outsideStore>>

ConfigIds == Keys(db, "workflow_configurations")

\* AUTOINCREMENT: one more than the largest config_id (no row is deleted)
NextConfigId == 1 + MaxOf(ConfigIds \cup {0})

\* a new version of a configuration: a new row, the old one kept
InsertConfigVersion(id, enabled) ==
  /\ id \in ConfigIds
  /\ Cardinality(ConfigIds) < MaxConfigs
  /\ LET old == CHOOSE r \in db.workflow_configurations : r.config_id = id
     IN db' = [db EXCEPT !["workflow_configurations"] =
                 @ \cup { [ config_id |-> NextConfigId,
                            config_type |-> "INSTANCE_SPECIFIC",
                            configuration_data |->
                              buildWorkflowConfig(enabled, DefaultSegmentDuration, TRUE),
                            version |-> old.version + 1 ] }]
  /\ UNCHANGED <<schema_runs, deleted_from, outsideStore>>

\* an edit in place of a configuration no instance references
EditConfig(id, enabled) ==
  /\ id \in ConfigIds
  /\ db' = [db EXCEPT !["workflow_configurations"] =
              { IF r.config_id = id
                  THEN [r EXCEPT !.configuration_data =
                          buildWorkflowConfig(enabled, DefaultSegmentDuration, TRUE)]
                  ELSE r : r \in @ }]
  /\ UNCHANGED <<schema_runs, deleted_from, outsideStore>>

\* the store after the schema script has run once on an empty file
SeededDb == RunInserts(EmptyDb, SchemaInserts)

StoreNext ==
  \/ \E t \in StoreTaskIds : InsertTask(t) \/ DeleteTask(t)
  \/ \E id \in RowIds, t \in StoreTaskIds :
       \/ InsertMergedVideo(id, t)
       \/ InsertOutputSegment(id, t)
       \/ InsertSourceVideo(id, t)
  \/ \E i \in StoreInstanceIds, t \in StoreTaskIds : InsertInstance(i, t)
  \/ \E id \in RowIds, i \in StoreInstanceIds : InsertStep(id, i)
  \/ \E i \in StoreInstanceIds : DeleteInstance(i)

SchemaNext ==
  \/ RunSchema
  \/ \E key \in {"download_threads", "download_queue_size",
                 "submission_upload_concurrency"}, value \in SettingValueChoices :
       update_download_settings(key, value)
  \/ \E id \in 1..MaxConfigs, enabled \in BOOLEAN :
       \/ InsertConfigVersion(id, enabled)
       \/ EditConfig(id, enabled)

\* C21: deleting a workflow instance deletes its steps, and deleting a
\* submission task deletes its segments, source videos and merged videos:
\* after either delete no row of those child tables references the parent.
C21_ChildrenOf(d, table, column, key) == {r \in d[table] : r[column] = key}

C21_TaskDeleteCascades ==
  \A t \in StoreTaskIds :
    (t \in Keys(db, "submission_task") /\ t \notin Keys(db', "submission_task"))
      => /\ C21_ChildrenOf(db', "task_output_segment", "task_id", t) = {}
         /\ C21_ChildrenOf(db', "task_source_video", "task_id", t) = {}
         /\ C21_ChildrenOf(db', "merged_video", "task_id", t) = {}

C21_InstanceDeleteCascades ==
  \A i \in StoreInstanceIds :
    (i \in Keys(db, "workflow_instances") /\ i \notin Keys(db', "workflow_instances"))
      => C21_ChildrenOf(db', "workflow_steps", "instance_id", i) = {}

C21_DeleteCascades ==
  [][C21_TaskDeleteCascades /\ C21_InstanceDeleteCascades]_vars

\* a task was deleted together with a child of each of the three tables, and
\* with an instance and its step
C21_Witness ==
  deleted_from =
    { "submission_task", "task_output_segment", "task_source_video", "merged_video",
      "workflow_instances", "workflow_steps" }

\* C24: the system-default workflow configurations are seeded when the schema
\* is created, and the schema script is idempotent: run on an initialised
\* store it creates no duplicate row and leaves every workflow_configurations
\* and app_settings row unchanged, changed values included.
C24_SeededAtCreation ==
  (schema_runs = 0 /\ schema_runs' = 1)
    => {SeedConfig1, SeedConfig2} \subseteq db'.workflow_configurations

C24_RerunKeepsRows ==
  (schema_runs >= 1 /\ schema_runs' = schema_runs + 1)
    => \A table \in {"workflow_configurations", "app_settings"} :
         /\ db[table] \subseteq db'[table]
         /\ Cardinality(Keys(db', table)) = Cardinality(db'[table])

C24_SchemaIdempotent == [][C24_SeededAtCreation /\ C24_RerunKeepsRows]_vars

\* the script has run again on a store holding a changed setting, an edited
\* seed configuration and a configuration created since the first run
C24_Witness ==
  /\ schema_runs = MaxSchemaRuns
  /\ SettingRow("download_threads", 1) \in db.app_settings
  /\ SeedConfig1 \notin db.workflow_configurations
  /\ Cardinality(db.workflow_configurations) = MaxConfigs

\* C22: for every listed sync job whose status is one of the six, the list
\* offers exactly one of pause and retry: pause if and only if the status is
\* PENDING or UPLOADING, retry if and only if it is FAILED, CANCELLED, PAUSED
\* or SUCCESS.
C22_ExactlyOneAction ==
  \A t \in filteredTasks :
    tasks[t] \in C20_Statuses =>
      /\ (ENABLED handlePause(t)) <=> tasks[t] \in {"PENDING", "UPLOADING"}
      /\ (ENABLED handleRetry(t)) <=>
           tasks[t] \in {"FAILED", "CANCELLED", "PAUSED", "SUCCESS"}
      /\ (ENABLED handlePause(t)) # (ENABLED handleRetry(t))

\* the pending tab lists a job that can be paused and one that can be retried
C22_Witness ==
  /\ syncTab = "pending"
  /\ \E t, u \in filteredTasks :
       /\ tasks[t] = "PENDING" /\ ENABLED handlePause(t)
       /\ tasks[u] = "PAUSED" /\ ENABLED handleRetry(u)

(***************************************************************************)
(* The download+submit form: validateIntegrationForm and the click on the   *)
(* submit button. A text is kept as its leading blanks and the length of    *)
(* the rest, which is all that trim() and length look at.                   *)
(***************************************************************************)
Text(blanks, rest) == [blanks |-> blanks, rest |-> rest]

Length(text) == text.blanks + text.rest

Trim(text) == Text(0, text.rest)

IsEmpty(text) == Length(text) = 0

\* a blank, the longest title, the same after a blank, and one longer
TitleChoices ==
  { Text(1, 0), Text(0, MaxTitleLength), Text(1, MaxTitleLength),
    Text(0, MaxTitleLength + 1) }

DescriptionChoices ==
  { Text(0, MaxDescriptionLength), Text(0, MaxDescriptionLength + 1) }

TagInputChoices == { Text(1, 0), Text(0, 1) }

\* the segmentation toggle with the duration field; the field is only
\* shown while the toggle is on
SegmentationChoices ==
  { <<TRUE, duration>> : duration \in SegmentDurationChoices }
    \cup { <<FALSE, MinSegmentDuration - 1>> }

TagsChoices == { <<>>, << Text(0, 1) >> }

\* what a user leaves or types in the two time fields of a part
StartTimeChoices == { <<0, 0, 0>>, Blank, <<0, 75, 0>>, <<0, 2, 0>> }

EndTimeChoices(duration) == { formatDurationHms(duration), Blank, <<1, 30>> }

ShortestPart == CHOOSE d \in PartDurations : \A e \in PartDurations : d <= e

\* the selected parts, each with its trims as edited
FormParts(n) ==
  [ 1..n ->
      { [NewPartConfig(ShortestPart) EXCEPT !.startTime = start, !.endTime = end] :
          start \in StartTimeChoices, end \in EndTimeChoices(ShortestPart) } ]

\* useState(defaultDownloadConfig), useState({title: "", ...}), ...
DefaultForm ==
  [ integrationEnabled |-> FALSE,
    selectedPartsConfig |-> <<>>,
    resolution |-> "",
    codec |-> "",
    format |-> "dash",
    title |-> Text(0, 0),
    description |-> Text(0, 0),
    partitionId |-> "",
    videoType |-> "ORIGINAL",
    tags |-> <<>>,
    tagInput |-> Text(0, 0),
    segmentationEnabled |-> TRUE,
    segmentDurationSeconds |-> DefaultSegmentDuration ]

\* the forms a user submits: the parts and the download fields in any
\* state; with integration enabled, the submission fields in any state too
FilledForms(maxParts) ==
  { [ DefaultForm EXCEPT !.selectedPartsConfig = parts,
                         !.resolution = resolution,
                         !.codec = codec,
                         !.format = format ] :
      parts \in UNION { FormParts(n) : n \in 0..maxParts },
      resolution \in {"", "80"}, codec \in {"", "avc1.640032"}, format \in {"", "dash"} }

IntegrationForms(maxParts) ==
  { [ f EXCEPT !.integrationEnabled = TRUE,
               !.title = title,
               !.description = description,
               !.partitionId = partitionId,
               !.videoType = videoType,
               !.tags = tags,
               !.tagInput = tagInput,
               !.segmentationEnabled = segmentation[1],
               !.segmentDurationSeconds = segmentation[2] ] :
      f \in FilledForms(maxParts), title \in TitleChoices, description \in DescriptionChoices,
      partitionId \in {"", "17"}, videoType \in {"", "ORIGINAL"},
      tags \in TagsChoices, tagInput \in TagInputChoices,
      segmentation \in SegmentationChoices }

\* normalizedTags, then Array.from(new Set(...))
uniqueTags(f) ==
  { f.tags[i] : i \in DOMAIN f.tags }
    \cup (IF IsEmpty(Trim(f.tagInput)) THEN {} ELSE {Trim(f.tagInput)})

RECURSIVE FirstPartMessage(_, _)
\* the loop over selectedPartsConfig: the message of the first part at or
\* after index that fails, "" if none does
FirstPartMessage(parts, index) ==
  IF index > Len(parts) THEN ""
  ELSE LET part == parts[index] IN
    IF ~isValidTimeFormat(part.startTime) THEN "start time format"
    ELSE IF ~isValidTimeFormat(part.endTime) THEN "end time format"
    ELSE IF /\ part.startTime # Blank
            /\ part.endTime # Blank
            /\ timeToSeconds(part.startTime) >= timeToSeconds(part.endTime)
      THEN "start time must be before end time"
    ELSE FirstPartMessage(parts, index + 1)

\* validateIntegrationForm: the message of the first check that fails,
\* "" for { valid: true }
validateIntegrationForm(f) ==
  IF Len(f.selectedPartsConfig) = 0 THEN "select at least one part"
  ELSE IF f.resolution = "" THEN "choose a resolution"
  ELSE IF f.codec = "" THEN "choose a codec"
  ELSE IF f.format = "" THEN "choose a format"
  ELSE IF IsEmpty(Trim(f.title)) THEN "enter a title"
  ELSE IF Length(f.title) > MaxTitleLength THEN "title too long"
  ELSE IF f.partitionId = "" THEN "choose a partition"
  ELSE IF f.videoType = "" THEN "choose a video type"
  ELSE IF ~IsEmpty(f.description) /\ Length(f.description) > MaxDescriptionLength
    THEN "description too long"
  ELSE IF uniqueTags(f) = {} THEN "enter at least one tag"
  ELSE IF /\ f.segmentationEnabled
          /\ \/ f.segmentDurationSeconds < MinSegmentDuration
             \/ f.segmentDurationSeconds > MaxSegmentDuration
    THEN "segment duration out of range"
  ELSE FirstPartMessage(f.selectedPartsConfig, 1)

PathMessage == "configure a download path first"

\* handleDownload: the plain download, one request without a submission
handleDownload(f, pathReady) ==
  IF Len(f.selectedPartsConfig) = 0
    THEN /\ formMessage' = "select at least one part"
         /\ UNCHANGED download_requests
  ELSE IF ~pathReady
    THEN /\ formMessage' = PathMessage
         /\ UNCHANGED download_requests
  ELSE /\ download_requests' =
            Append(download_requests,
                   [ enableSubmission |-> FALSE, parts |-> Len(f.selectedPartsConfig) ])
       /\ UNCHANGED formMessage

\* handleIntegrationDownload, on the form as rendered when the button was
\* clicked; pathReady is the answer of ensureDownloadPathReady
handleSubmitClick(pathReady) ==
  /\ formMessage = ""
  /\ download_requests = <<>>
  /\ LET f == integrationForm IN
       IF ~f.integrationEnabled THEN handleDownload(f, pathReady)
       ELSE IF validateIntegrationForm(f) # ""
         THEN /\ formMessage' = validateIntegrationForm(f)
              /\ UNCHANGED download_requests
       ELSE IF ~pathReady
         THEN /\ formMessage' = PathMessage
              /\ UNCHANGED download_requests
       ELSE /\ download_requests' =
                 Append(download_requests,
                   [ enableSubmission |-> TRUE,
                     workflowConfig |->
                       buildWorkflowConfig(f.segmentationEnabled,
                                           f.segmentDurationSeconds, TRUE),
                     parts |-> Len(f.selectedPartsConfig),
                     submissionRequest |->
                       [ title |-> f.title,
                         description |-> f.description,
                         partitionId |-> f.partitionId,
                         tags |-> uniqueTags(f),
                         videoType |-> f.videoType,
                         videoParts |-> f.selectedPartsConfig ] ])
            /\ UNCHANGED formMessage
  /\ UNCHANGED integrationForm
  /\ UNCHANGED outsideForm

FormInit ==
  /\ integrationForm = DefaultForm
  /\ formMessage = ""
  /\ download_requests = <<>>

FormNext == \E pathReady \in BOOLEAN : handleSubmitClick(pathReady)

\* C23: in the download+submit flow download_video with a submission request
\* is sent only for a form with at least one part, a resolution, a codec and
\* a format, a non-blank title of at most 80 characters, a partition and a
\* video type, a description of at most 2000 characters, at least one tag, a
\* segment duration within 30..600 when segmentation is enabled, every
\* non-empty trim time of the form HH:MM:SS and, where a part has both
\* trims, the start strictly before the end; a form that fails one of these
\* gets a message at once and nothing is sent.
C23_IsTimecode(value) ==
  IF Len(value) # 3 THEN FALSE
  ELSE value[1] \in 0..23 /\ value[2] \in 0..59 /\ value[3] \in 0..59

C23_FormValid(f) ==
  /\ Len(f.selectedPartsConfig) >= 1
  /\ f.resolution # "" /\ f.codec # "" /\ f.format # ""
  /\ f.title.rest > 0
  /\ f.title.blanks + f.title.rest <= 80
  /\ f.partitionId # "" /\ f.videoType # ""
  /\ f.description.blanks + f.description.rest <= 2000
  /\ (f.tags # <<>> \/ f.tagInput.rest > 0)
  /\ f.segmentationEnabled =>
       (f.segmentDurationSeconds >= 30 /\ f.segmentDurationSeconds <= 600)
  /\ \A i \in DOMAIN f.selectedPartsConfig :
       LET part == f.selectedPartsConfig[i] IN
         /\ part.startTime # Blank => C23_IsTimecode(part.startTime)
         /\ part.endTime # Blank => C23_IsTimecode(part.endTime)
         /\ (part.startTime # Blank /\ part.endTime # Blank) =>
              timeToSeconds(part.startTime) < timeToSeconds(part.endTime)

C23_Clicked == formMessage # "" \/ download_requests # <<>>

RecordIds == {1, 2}

recordTabs ==
  << [key |-> "pending", status |-> StatusPending],
     [key |-> "downloading", status |-> StatusDownloading],
     [key |-> "completed", status |-> StatusDone],
     [key |-> "failed", status |-> StatusFailed] >>

RecordTabKeys == { recordTabs[i].key : i \in DOMAIN recordTabs }

\* activeRecordStatus: the status of the tab found, 0 if none
StatusOfTab(key) ==
  LET found == { i \in DOMAIN recordTabs : recordTabs[i].key = key } IN
    IF found = {} THEN 0 ELSE recordTabs[CHOOSE i \in found : TRUE].status

activeRecordStatus == StatusOfTab(recordTab)

StoredIds == DOMAIN download_records

\* download_list_by_status, and for status 1 the merge with status 4
ListByStatus(status) ==
  { [id |-> id, status |-> download_records[id]] :
      id \in { i \in StoredIds :
                 \/ download_records[i] = status
                 \/ status = StatusDownloading /\ download_records[i] = StatusPaused } }

\* the start of loadDownloadList(status)
RequestList(status) == list_requests' = list_requests \cup {status}

\* the response to a load: setDownloadList
ListResponse(status) ==
  /\ status \in list_requests
  /\ list_requests' = list_requests \ {status}
  /\ downloadList' = ListByStatus(status)
  /\ UNCHANGED <<mainTab, recordTab, record_commands, download_records>>
  /\ UNCHANGED outsideSection

\* the tab buttons, with the effects on [mainTab, activeRecordStatus] and
\* on [mainTab]
setMainTab(tab) ==
  /\ mainTab # tab
  /\ mainTab' = tab
  /\ IF tab = "records" THEN RequestList(activeRecordStatus) ELSE UNCHANGED list_requests
  /\ downloadStep' = IF tab # "download" THEN "select" ELSE downloadStep
  /\ UNCHANGED <<recordTab, downloadList, record_commands, download_records>>
  /\ UNCHANGED outsideTabs

setRecordTab(key) ==
  /\ mainTab = "records"
  /\ recordTab # key
  /\ recordTab' = key
  /\ RequestList(StatusOfTab(key))
  /\ UNCHANGED <<mainTab, downloadList, record_commands, download_records>>
  /\ UNCHANGED outsideSection

\* setInterval(() => loadDownloadList(), 3000) while the records tab is shown
PollTimer ==
  /\ mainTab = "records"
  /\ activeRecordStatus \notin list_requests
  /\ RequestList(activeRecordStatus)
  /\ UNCHANGED <<mainTab, recordTab, downloadList, record_commands, download_records>>
  /\ UNCHANGED outsideSection

\* a button of a listed record: the command is sent, and the handler keeps
\* the status of the tab it was rendered under for its reload
RecordCommand(command, id) ==
  /\ mainTab = "records"
  /\ Cardinality(record_commands) < MaxCommands
  /\ \E record \in downloadList :
       /\ record.id = id
       /\ command = "download_resume" => record.status = StatusPaused
       /\ command = "download_retry" => record.status = StatusFailed
  /\ record_commands' =
       record_commands \cup
         { [command |-> command, id |-> id, status |-> activeRecordStatus] }
  /\ UNCHANGED <<mainTab, recordTab, downloadList, list_requests, download_records>>
  /\ UNCHANGED outsideSection

\* what the command does to the store; the store as it is if it cannot
CommandEffect(c) ==
  IF c.id \notin StoredIds THEN download_records
  ELSE IF c.command = "download_delete"
    THEN [ id \in StoredIds \ {c.id} |-> download_records[id] ]
  ELSE IF c.command = "download_retry" /\ download_records[c.id] = StatusFailed
    THEN [download_records EXCEPT ![c.id] = StatusPending]
  ELSE IF c.command = "download_resume" /\ download_records[c.id] = StatusPaused
    THEN [download_records EXCEPT ![c.id] = StatusDownloading]
  ELSE download_records

\* the command returns: await loadDownloadList()
CommandDone(c) ==
  /\ c \in record_commands
  /\ record_commands' = record_commands \ {c}
  /\ download_records' = CommandEffect(c)
  /\ RequestList(c.status)
  /\ UNCHANGED <<mainTab, recordTab, downloadList>>
  /\ UNCHANGED outsideSection

\* the command throws: setMessage(error.message), no reload
CommandError(c) ==
  /\ c \in record_commands
  /\ record_commands' = record_commands \ {c}
  /\ UNCHANGED <<mainTab, recordTab, downloadList, list_requests, download_records>>
  /\ UNCHANGED outsideSection

\* the download pool at work on a stored record
RecordProgress(id, status) ==
  /\ id \in StoredIds
  /\ \/ download_records[id] = StatusPending /\ status = StatusDownloading
     \/ download_records[id] = StatusDownloading
          /\ status \in {StatusDone, StatusFailed, StatusPaused}
  /\ download_records' = [download_records EXCEPT ![id] = status]
  /\ UNCHANGED <<mainTab, recordTab, downloadList, list_requests, record_commands>>
  /\ UNCHANGED outsideSection

SectionInit ==
  /\ mainTab = "download"
  /\ recordTab = "pending"
  /\ downloadList = {}
  /\ list_requests = {}
  /\ record_commands = {}
  /\ download_records = [id \in RecordIds |-> StatusPending]

RecordsNext ==
  \/ \E tab \in {"download", "records"} : setMainTab(tab)
  \/ \E key \in RecordTabKeys : setRecordTab(key)
  \/ PollTimer
  \/ \E status \in 0..StatusPaused : ListResponse(status)
  \/ \E command \in {"download_retry", "download_resume", "download_delete"},
        id \in RecordIds : RecordCommand(command, id)
  \/ \E c \in record_commands : CommandDone(c) \/ CommandError(c)
  \/ \E id \in RecordIds, status \in 0..StatusPaused : RecordProgress(id, status)

\* C25: in the records view, once no load and no command is in flight, every
\* record shown has a status of the active tab: 1 or 4 under the downloading
\* tab, the tab's own status under the others.
C25_StatusesOfTab(key) ==
  IF key = "downloading" THEN {1, 4}
  ELSE IF key = "pending" THEN {0}
  ELSE IF key = "completed" THEN {2}
  ELSE {3}

C25_ListMatchesTab ==
  (mainTab = "records" /\ list_requests = {} /\ record_commands = {})
    => \A record \in downloadList : record.status \in C25_StatusesOfTab(recordTab)

(***************************************************************************)
(* The cloud directory picker (BaiduSyncPathPicker), open on "/". A path is *)
(* the sequence of its folder names. Responses arrive in any order; a       *)
(* handler that awaits a command goes on with the state of the render in    *)
(* which it was started.                                                    *)
(***************************************************************************)
RootPath == <<>>
NoPath == << "" >>

\* the name baidu_sync_create_dir is asked for, and what a user renames to
NewFolderName == "new"
RenameChoices == {"c"}

IsPrefix(a, b) == Len(a) <= Len(b) /\ SubSeq(b, 1, Len(a)) = a

ParentOf(path) == SubSeq(path, 1, Len(path) - 1)

\* baidu_sync_remote_dirs: the folders directly under path
Listing(path) == { d \in remote_dirs : Len(d) = Len(path) + 1 /\ IsPrefix(path, d) }

replacePath(path, fromPath, toPath) ==
  IF path = fromPath THEN toPath
  ELSE IF IsPrefix(fromPath, path)
    THEN toPath \o SubSeq(path, Len(fromPath) + 1, Len(path))
  ELSE path

\* the start of loadFolders(path); origin is the handler awaiting it
StartLoad(path, origin) ==
  /\ Cardinality(dir_requests) < MaxDirRequests
  /\ browseLoading' = TRUE
  /\ dir_requests' = dir_requests \cup { [path |-> path, origin |-> origin] }

\* the end of loadFolders: setFolders, and the finally blocks of the callers
LoadResponse(r) ==
  /\ r \in dir_requests
  /\ dir_requests' = dir_requests \ {r}
  /\ folders' = Listing(r.path)
  /\ browseLoading' = FALSE
  /\ creating' = IF r.origin = "create" THEN FALSE ELSE creating
  /\ UNCHANGED <<browserPath, renamingPath, picker_commands, remote_dirs>>
  /\ UNCHANGED outsidePicker

handleGoParent ==
  /\ browserPath # RootPath
  /\ browserPath' = ParentOf(browserPath)
  /\ renamingPath' = NoPath
  /\ StartLoad(ParentOf(browserPath), "button")
  /\ UNCHANGED <<folders, creating, picker_commands, remote_dirs>>
  /\ UNCHANGED outsidePicker

\* a row of the list; rows are rendered when no load is running
handleEnterFolder(folder) ==
  /\ ~browseLoading
  /\ folder \in folders
  /\ folder # renamingPath
  /\ browserPath' = folder
  /\ renamingPath' = NoPath
  /\ StartLoad(folder, "button")
  /\ UNCHANGED <<folders, creating, picker_commands, remote_dirs>>
  /\ UNCHANGED outsidePicker

\* onClick={() => loadFolders(browserPath)}, disabled={browseLoading}
Refresh ==
  /\ ~browseLoading
  /\ StartLoad(browserPath, "button")
  /\ UNCHANGED <<browserPath, folders, creating, renamingPath, picker_commands,
                 remote_dirs>>
  /\ UNCHANGED outsidePicker

handleCreateFolder ==
  /\ ~creating
  /\ ~browseLoading
  /\ Cardinality(picker_commands) < MaxCommands
  /\ creating' = TRUE
  /\ picker_commands' =
       picker_commands \cup { [command |-> "create", browserPath |-> browserPath] }
  /\ UNCHANGED <<browserPath, folders, browseLoading, renamingPath, dir_requests,
                 remote_dirs>>
  /\ UNCHANGED outsidePicker

\* baidu_sync_create_dir returns the new folder
CreateDone(c) ==
  /\ c \in picker_commands
  /\ c.command = "create"
  /\ c.browserPath \o <<NewFolderName>> \notin remote_dirs
  /\ Cardinality(remote_dirs) < MaxFolders
  /\ picker_commands' = picker_commands \ {c}
  /\ remote_dirs' = remote_dirs \cup { c.browserPath \o <<NewFolderName>> }
  /\ renamingPath' = c.browserPath \o <<NewFolderName>>
  /\ StartLoad(c.browserPath, "create")
  /\ UNCHANGED <<browserPath, folders, creating>>
  /\ UNCHANGED outsidePicker

\* baidu_sync_create_dir throws: setBrowseError, and creating is cleared
CreateError(c) ==
  /\ c \in picker_commands
  /\ c.command = "create"
  /\ picker_commands' = picker_commands \ {c}
  /\ creating' = FALSE
  /\ UNCHANGED <<browserPath, folders, browseLoading, renamingPath, dir_requests,
                 remote_dirs>>
  /\ UNCHANGED outsidePicker

handleStartRename(folder) ==
  /\ ~browseLoading
  /\ folder \in folders
  /\ folder # renamingPath
  /\ renamingPath' = folder
  /\ UNCHANGED <<browserPath, folders, browseLoading, creating, dir_requests,
                 picker_commands, remote_dirs>>
  /\ UNCHANGED outsidePicker

\* the save button of the row being renamed
handleRenameConfirm(name) ==
  /\ ~browseLoading
  /\ renamingPath \in folders
  /\ Cardinality(picker_commands) < MaxCommands
  /\ browseLoading' = TRUE
  /\ picker_commands' =
       picker_commands \cup
         { [command |-> "rename", browserPath |-> browserPath,
            renamingPath |-> renamingPath, name |-> name] }
  /\ UNCHANGED <<browserPath, folders, creating, renamingPath, dir_requests,
                 remote_dirs>>
  /\ UNCHANGED outsidePicker

\* baidu_sync_rename_dir returns the folder's new path
RenameDone(c) ==
  /\ c \in picker_commands
  /\ c.command = "rename"
  /\ c.renamingPath \in remote_dirs
  /\ LET nextPath == ParentOf(c.renamingPath) \o <<c.name>>
         nextBrowserPath == replacePath(c.browserPath, c.renamingPath, nextPath)
     IN /\ nextPath \notin remote_dirs
        /\ remote_dirs' = { replacePath(d, c.renamingPath, nextPath) : d \in remote_dirs }
        /\ browserPath' =
             IF nextBrowserPath # c.browserPath THEN nextBrowserPath ELSE browserPath
        /\ StartLoad(nextBrowserPath, "rename")
  /\ picker_commands' = picker_commands \ {c}
  /\ renamingPath' = NoPath
  /\ UNCHANGED <<folders, creating>>
  /\ UNCHANGED outsidePicker

\* baidu_sync_rename_dir throws: setBrowseError, and the loading flag is cleared
RenameError(c) ==
  /\ c \in picker_commands
  /\ c.command = "rename"
  /\ picker_commands' = picker_commands \ {c}
  /\ browseLoading' = FALSE
  /\ UNCHANGED <<browserPath, folders, creating, renamingPath, dir_requests,
                 remote_dirs>>
  /\ UNCHANGED outsidePicker

\* the picker has just been opened with no value: the effect on [open]
PickerInit ==
  /\ browserPath = RootPath
  /\ folders = {}
  /\ browseLoading = TRUE
  /\ creating = FALSE
  /\ renamingPath = NoPath
  /\ dir_requests = { [path |-> RootPath, origin |-> "button"] }
  /\ picker_commands = {}
  /\ remote_dirs = { <<"a">>, <<"a", "b">> }

PickerNext ==
  \/ \E r \in dir_requests : LoadResponse(r)
  \/ handleGoParent
  \/ \E folder \in folders : handleEnterFolder(folder)
  \/ Refresh
  \/ handleCreateFolder
  \/ \E c \in picker_commands : CreateDone(c)
  \/ \E c \in picker_commands : CreateError(c)
  \/ \E folder \in folders : handleStartRename(folder)
  \/ \E name \in RenameChoices : handleRenameConfirm(name)
  \/ \E c \in picker_commands : RenameDone(c)
  \/ \E c \in picker_commands : RenameError(c)

\* C26: in the directory picker, once no listing request and no command is
\* outstanding, the folder list shown is the listing of the current
\* browserPath, the path that confirm returns.
C26_ListIsOfBrowserPath ==
  (dir_requests = {} /\ picker_commands = {}) => folders = Listing(browserPath)

(***************************************************************************)
(* QR login (AuthSection): a generated code is polled by an interval until  *)
(* a poll answers success or expired. Responses arrive in any order.        *)
(***************************************************************************)
QrKeys == 1..MaxQrKeys

\* stopPolling, the part that clears the interval (pollRef is set by the caller)
stopPolling == timers' = timers \ {pollRef}

handleGenerate ==
  /\ ~loading
  /\ "generate" \notin auth_requests
  /\ Len(qr_server) < MaxQrKeys
  /\ loading' = TRUE
  /\ auth_requests' = auth_requests \cup {"generate"}
  /\ UNCHANGED <<authStatus, qrData, qrStatus, pollRef, timers, poll_requests,
                 qr_server, server_logged_in>>
  /\ UNCHANGED outsideQr

\* auth_qrcode_generate returns a new key: the old interval is cleared and
\* one for the new key is created
GenerateDone ==
  /\ "generate" \in auth_requests
  /\ auth_requests' = auth_requests \ {"generate"}
  /\ LET key == Len(qr_server) + 1 IN
       /\ qr_server' = Append(qr_server, "pending")
       /\ qrData' = key
       /\ pollRef' = key
       /\ timers' = (timers \ {pollRef}) \cup {key}
  /\ qrStatus' = "pending"
  /\ loading' = FALSE
  /\ UNCHANGED <<authStatus, poll_requests, server_logged_in>>
  /\ UNCHANGED outsideQr

GenerateError ==
  /\ "generate" \in auth_requests
  /\ auth_requests' = auth_requests \ {"generate"}
  /\ loading' = FALSE
  /\ UNCHANGED <<authStatus, qrData, qrStatus, pollRef, timers, poll_requests,
                 qr_server, server_logged_in>>
  /\ UNCHANGED outsideQr

\* an interval fires: pollStatus(key) up to its await
TimerTick(key) ==
  /\ key \in timers
  /\ key \notin poll_requests
  /\ poll_requests' = poll_requests \cup {key}
  /\ UNCHANGED <<loading, authStatus, qrData, qrStatus, pollRef, timers, auth_requests,
                 qr_server, server_logged_in>>
  /\ UNCHANGED outsideQr

\* pollStatus(key) after its await: code 0, 86090, 86038 or another
PollResponse(key) ==
  /\ key \in poll_requests
  /\ poll_requests' = poll_requests \ {key}
  /\ IF qr_server[key] = "confirmed"
       THEN /\ qrStatus' = "success"
            /\ stopPolling
            /\ pollRef' = 0
            /\ auth_requests' = auth_requests \cup {"status"}
     ELSE IF qr_server[key] = "scanned"
       THEN /\ qrStatus' = "scanned"
            /\ UNCHANGED <<pollRef, timers, auth_requests>>
     ELSE IF qr_server[key] = "expired"
       THEN /\ qrStatus' = "expired"
            /\ stopPolling
            /\ pollRef' = 0
            /\ UNCHANGED auth_requests
     ELSE /\ qrStatus' = "pending"
          /\ UNCHANGED <<pollRef, timers, auth_requests>>
  /\ UNCHANGED <<loading, authStatus, qrData, qr_server, server_logged_in>>
  /\ UNCHANGED outsideQr

\* refreshStatus after its await
StatusResponse ==
  /\ "status" \in auth_requests
  /\ auth_requests' = auth_requests \ {"status"}
  /\ authStatus' = server_logged_in
  /\ UNCHANGED <<loading, qrData, qrStatus, pollRef, timers, poll_requests, qr_server,
                 server_logged_in>>
  /\ UNCHANGED outsideQr

handleLogout ==
  /\ "logout" \notin auth_requests
  /\ auth_requests' = auth_requests \cup {"logout"}
  /\ UNCHANGED <<loading, authStatus, qrData, qrStatus, pollRef, timers, poll_requests,
                 qr_server, server_logged_in>>
  /\ UNCHANGED outsideQr

\* auth_logout returns
LogoutDone ==
  /\ "logout" \in auth_requests
  /\ auth_requests' = auth_requests \ {"logout"}
  /\ server_logged_in' = FALSE
  /\ authStatus' = FALSE
  /\ qrData' = 0
  /\ qrStatus' = "idle"
  /\ stopPolling
  /\ pollRef' = 0
  /\ UNCHANGED <<loading, poll_requests, qr_server>>
  /\ UNCHANGED outsideQr

\* the phone: the code is scanned, then confirmed; or it expires
ScanQr(key) ==
  /\ key \in DOMAIN qr_server
  /\ qr_server[key] = "pending"
  /\ qr_server' = [qr_server EXCEPT ![key] = "scanned"]
  /\ UNCHANGED <<loading, authStatus, qrData, qrStatus, pollRef, timers, auth_requests,
                 poll_requests, server_logged_in>>
  /\ UNCHANGED outsideQr

ConfirmQr(key) ==
  /\ key \in DOMAIN qr_server
  /\ qr_server[key] = "scanned"
  /\ qr_server' = [qr_server EXCEPT ![key] = "confirmed"]
  /\ server_logged_in' = TRUE
  /\ UNCHANGED <<loading, authStatus, qrData, qrStatus, pollRef, timers, auth_requests,
                 poll_requests>>
  /\ UNCHANGED outsideQr

ExpireQr(key) ==
  /\ key \in DOMAIN qr_server
  /\ qr_server[key] \in {"pending", "scanned"}
  /\ qr_server' = [qr_server EXCEPT ![key] = "expired"]
  /\ UNCHANGED <<loading, authStatus, qrData, qrStatus, pollRef, timers, auth_requests,
                 poll_requests, server_logged_in>>
  /\ UNCHANGED outsideQr

QrInit ==
  /\ loading = FALSE
  /\ authStatus = FALSE
  /\ qrData = 0
  /\ qrStatus = "idle"
  /\ pollRef = 0
  /\ timers = {}
  /\ auth_requests = {}
  /\ poll_requests = {}
  /\ qr_server = <<>>
  /\ server_logged_in = FALSE

QrNext ==
  \/ handleGenerate
  \/ GenerateDone
  \/ GenerateError
  \/ \E key \in QrKeys : TimerTick(key)
  \/ \E key \in QrKeys : PollResponse(key)
  \/ StatusResponse
  \/ handleLogout
  \/ LogoutDone
  \/ \E key \in QrKeys : ScanQr(key)
  \/ \E key \in QrKeys : ConfirmQr(key)
  \/ \E key \in QrKeys : ExpireQr(key)

\* C27: at most one polling interval exists at any time, and the response to
\* a poll of a key that is no longer the one shown (a new code was generated,
\* or the user logged out) changes neither the QR status shown nor the
\* polling of the current key.
C27_OneTimer == Cardinality(timers) <= 1

C27_StaleResponseIgnored ==
  \A key \in QrKeys :
    (key \in poll_requests /\ key \notin poll_requests' /\ key # qrData)
      => (qrStatus' = qrStatus /\ timers' = timers)

C27_OneTimerNoStaleEffect == []C27_OneTimer /\ [][C27_StaleResponseIgnored]_vars

(***************************************************************************)
(* The download wizard of DownloadSection: search, the selection of parts   *)
(* and the steps select -> download -> submission.  A video is known by its *)
(* key, which is also its title; a part by its cid.  What a search finds is *)
(* the platform's answer: the pages of BV1 come with cids that do not       *)
(* ascend, so that the order of the parts list is not the order of the ids. *)
(***************************************************************************)
VideoKeys == {"BV1", "BV2"}

PagesOf(key) == IF key = "BV1" THEN <<12, 11>> ELSE <<21>>

SearchInputs == {<<"BV1">>, <<"BV1", "BV2">>}

DefaultDownloadPath == "/default"

DownloadPathChoices == {"", "/d"}

DownloadNameChoices == {"n"}

PartTimeFields == {"startTime", "endTime"}

PartTimeChoices == {<<0, 0, 5>>}

\* "00:00:00"
DefaultStartTime == <<0, 0, 0>>

\* part.duration: every page lasts a minute
PageDuration(cid) == 60

Range(seq) == {seq[i] : i \in DOMAIN seq}

\* parts.findIndex((target) => target.cid === cid), 0 when there is none
IndexOf(parts, cid) ==
  IF \E i \in DOMAIN parts : parts[i] = cid
    THEN CHOOSE i \in DOMAIN parts :
           parts[i] = cid /\ \A j \in 1..(i - 1) : parts[j] # cid
    ELSE 0

InsertByIndex(parts, sorted, cid) ==
  LET before ==
        Cardinality({i \in DOMAIN sorted :
                       IndexOf(parts, sorted[i]) <= IndexOf(parts, cid)})
  IN  SubSeq(sorted, 1, before) \o <<cid>> \o SubSeq(sorted, before + 1, Len(sorted))

SortByParts_Unsorted(parts, selected) == selected

\* nextSelected.sort(by the index in item.parts)
RECURSIVE SortByParts(_, _)
SortByParts(parts, selected) ==
  IF selected = <<>>
    THEN <<>>
    ELSE InsertByIndex(parts,
                       SortByParts(parts, SubSeq(selected, 1, Len(selected) - 1)),
                       selected[Len(selected)])

buildPartKey(videoKey, cid) == <<videoKey, cid>>

buildExpectedFilePath(cid, item, isMulti, config) ==
  LET basePath ==
        IF config.downloadPath # "" THEN config.downloadPath ELSE DefaultDownloadPath
      folderName ==
        IF isMulti \/ config.downloadName = "" THEN item.key ELSE config.downloadName
  IN  <<basePath, folderName, cid>>

buildSelectedPartsConfig(item, selected, isMulti, config) ==
  [i \in DOMAIN selected |->
     LET cid == selected[i]
         partKey == buildPartKey(item.key, cid)
         found == {k \in DOMAIN item.selectedPartsConfig :
                     item.selectedPartsConfig[k].key = partKey}
         existing ==
           item.selectedPartsConfig[CHOOSE k \in found : \A other \in found : k <= other]
     IN  [key |-> partKey,
          cid |-> cid,
          filePath |-> buildExpectedFilePath(cid, item, isMulti, config),
          startTime |-> IF found # {} /\ existing.startTime # Blank
                          THEN existing.startTime ELSE DefaultStartTime,
          endTime |-> IF found # {} /\ existing.endTime # Blank
                        THEN existing.endTime ELSE formatDurationHms(PageDuration(cid))]]

\* the derived values of a render
selectedCount == Len(videoItems) # 0 /\ \E i \in DOMAIN videoItems : videoItems[i].selectedParts # <<>>

hasSelection == selectedCount

\* the selection step is shown
SelectShown == mainTab = "download" /\ downloadStep = "select"

\* handleSearch, from the button or the Enter key, up to its first await
handleSearch(inputs) ==
  /\ SelectShown
  /\ Cardinality(search_requests) < MaxCommands
  /\ inputs \notin search_requests
  /\ searching' = TRUE
  /\ search_requests' = search_requests \cup {inputs}
  /\ UNCHANGED <<videoItems, downloadConfig, downloadStep, integrationEnabled, next_requests>>
  /\ UNCHANGED outsideWizard

\* the effect on [downloadPath, downloadName, defaultDownloadPath]
RefreshPaths(items, config) ==
  [i \in DOMAIN items |->
     LET configs == items[i].selectedPartsConfig
     IN  [items[i] EXCEPT !.selectedPartsConfig =
            [k \in DOMAIN configs |->
               IF IndexOf(items[i].parts, configs[k].cid) = 0
                 THEN configs[k]
                 ELSE [configs[k] EXCEPT !.filePath =
                         buildExpectedFilePath(configs[k].cid, items[i],
                                               Len(items) > 1, config)]]]]

\* handleSearch once every video_detail has answered: the videos in found
\* were found, the others failed
SearchDone(inputs, found) ==
  /\ inputs \in search_requests
  /\ search_requests' = search_requests \ {inputs}
  /\ LET keys == SelectSeq(inputs, LAMBDA key : key \in found)
         nextItems ==
           [i \in DOMAIN keys |->
              [key |-> keys[i], parts |-> PagesOf(keys[i]),
               selectedParts |-> <<>>, selectedPartsConfig |-> <<>>]]
         nextConfig ==
           [downloadConfig EXCEPT
              !.downloadName = IF Len(nextItems) = 1 THEN nextItems[1].key ELSE ""]
     IN  /\ downloadConfig' = nextConfig
         /\ videoItems' = RefreshPaths(nextItems, nextConfig)
  /\ downloadStep' = "select"
  /\ searching' = FALSE
  /\ UNCHANGED <<integrationEnabled, next_requests>>
  /\ UNCHANGED outsideWizard

setVideoItem(index, nextSelected) ==
  /\ videoItems' =
       [videoItems EXCEPT
          ![index] = [@ EXCEPT
             !.selectedParts = nextSelected,
             !.selectedPartsConfig =
               buildSelectedPartsConfig(videoItems[index], nextSelected,
                                        Len(videoItems) > 1, downloadConfig)]]
  /\ UNCHANGED <<downloadConfig, downloadStep, integrationEnabled, searching,
                 search_requests, next_requests>>
  /\ UNCHANGED outsideWizard

\* the checkbox of a part
togglePart(index, cid) ==
  /\ SelectShown
  /\ index \in DOMAIN videoItems
  /\ cid \in Range(videoItems[index].parts)
  /\ LET item == videoItems[index]
         exists == cid \in Range(item.selectedParts)
         nextSelected ==
           IF exists
             THEN SelectSeq(item.selectedParts, LAMBDA selected : selected # cid)
             ELSE SortByParts(item.parts, Append(item.selectedParts, cid))
     IN  setVideoItem(index, nextSelected)

toggleSelectAll(index) ==
  /\ SelectShown
  /\ index \in DOMAIN videoItems
  /\ LET item == videoItems[index]
         allSelected ==
           Len(item.parts) > 0 /\ Len(item.selectedParts) = Len(item.parts)
     IN  setVideoItem(index, IF allSelected THEN <<>> ELSE item.parts)

\* updatePartConfig on the video items: the start and end inputs of a part,
\* shown on the submission step
updatePartConfigOfItem(partKey, field, value) ==
  /\ mainTab = "download"
  /\ downloadStep = "submission"
  /\ \E i \in DOMAIN videoItems :
       \E k \in DOMAIN videoItems[i].selectedPartsConfig :
         videoItems[i].selectedPartsConfig[k].key = partKey
  /\ videoItems' =
       [i \in DOMAIN videoItems |->
          LET configs == videoItems[i].selectedPartsConfig
          IN  [videoItems[i] EXCEPT !.selectedPartsConfig =
                 [k \in DOMAIN configs |->
                    IF configs[k].key # partKey
                      THEN configs[k]
                      ELSE IF field = "startTime"
                             THEN [configs[k] EXCEPT !.startTime = value]
                             ELSE [configs[k] EXCEPT !.endTime = value]]]]
  /\ videoItems' # videoItems
  /\ UNCHANGED <<downloadConfig, downloadStep, integrationEnabled, searching,
                 search_requests, next_requests>>
  /\ UNCHANGED outsideWizard

\* the path and name inputs of the download step, with the refresh effect
setDownloadConfig(field, value) ==
  /\ mainTab = "download"
  /\ downloadStep = "download"
  /\ LET nextConfig ==
           IF field = "downloadPath"
             THEN [downloadConfig EXCEPT !.downloadPath = value]
             ELSE [downloadConfig EXCEPT !.downloadName = value]
     IN  /\ nextConfig # downloadConfig
         /\ downloadConfig' = nextConfig
         /\ videoItems' = RefreshPaths(videoItems, nextConfig)
  /\ UNCHANGED <<downloadStep, integrationEnabled, searching, search_requests, next_requests>>
  /\ UNCHANGED outsideWizard

\* the two buttons of the selection step, disabled without a selection
handleStartConfig(enableIntegration) ==
  /\ SelectShown
  /\ hasSelection
  /\ integrationEnabled' = enableIntegration
  /\ downloadStep' = "download"
  /\ UNCHANGED <<videoItems, downloadConfig, searching, search_requests, next_requests>>
  /\ UNCHANGED outsideWizard

\* the back buttons of the download and the submission step
setDownloadStep(step) ==
  /\ mainTab = "download"
  /\ \/ downloadStep = "download" /\ step = "select"
     \/ downloadStep = "submission" /\ step = "download"
  /\ downloadStep' = step
  /\ UNCHANGED <<videoItems, downloadConfig, integrationEnabled, searching,
                 search_requests, next_requests>>
  /\ UNCHANGED outsideWizard

\* a click whose handler awaits: it goes on with the values of its render
StartRequest(kind) ==
  /\ Cardinality(next_requests) < MaxCommands
  /\ next_requests' =
       next_requests \cup
         {[kind |-> kind, integrationEnabled |-> integrationEnabled,
           selected |-> hasSelection]}
  /\ next_requests' # next_requests
  /\ UNCHANGED <<videoItems, downloadConfig, downloadStep, integrationEnabled,
                 searching, search_requests>>
  /\ UNCHANGED outsideWizard

handleNextFromDownloadConfig ==
  /\ mainTab = "download"
  /\ downloadStep = "download"
  /\ StartRequest("next")

handleSubmitDownload ==
  /\ mainTab = "download"
  /\ downloadStep = "submission"
  /\ StartRequest("submit")

\* setDownloadStep("select"); setRecordTab("pending"); setMainTab("records");
\* loadDownloadList(0), with the effect on [mainTab, activeRecordStatus]
ShowQueue ==
  /\ downloadStep' = "select"
  /\ recordTab' = "pending"
  /\ mainTab' = "records"
  /\ list_requests' = list_requests \cup {StatusOfTab("pending"), 0}
  /\ UNCHANGED <<downloadList, record_commands, download_records>>

\* handleNextFromDownloadConfig after its awaits: pathReady is the answer of
\* validate_directory together with the checks of the download settings
NextDone(r, pathReady) ==
  /\ r \in next_requests
  /\ r.kind = "next"
  /\ next_requests' = next_requests \ {r}
  /\ LET success == r.selected /\ pathReady
     IN  IF r.integrationEnabled
           THEN /\ downloadStep' = IF success THEN "submission" ELSE downloadStep
                /\ UNCHANGED sectionVars
           ELSE IF success
                  THEN ShowQueue
                  ELSE UNCHANGED <<downloadStep, sectionVars>>
  /\ UNCHANGED <<videoItems, downloadConfig, integrationEnabled, searching, search_requests>>
  /\ UNCHANGED <<workflowVars, uploadVars, recorderVars, settingsVars, poolVars, syncVars,
                 estimateVars, publishVars, storeVars, formVars, pickerVars, qrVars,
                 dialogVars>>

\* handleSubmitDownload after handleIntegrationDownload has returned
SubmitDone(r, success) ==
  /\ r \in next_requests
  /\ r.kind = "submit"
  /\ next_requests' = next_requests \ {r}
  /\ IF success /\ (r.integrationEnabled \/ r.selected)
       THEN ShowQueue
       ELSE UNCHANGED <<downloadStep, sectionVars>>
  /\ UNCHANGED <<videoItems, downloadConfig, integrationEnabled, searching, search_requests>>
  /\ UNCHANGED <<workflowVars, uploadVars, recorderVars, settingsVars, poolVars, syncVars,
                 estimateVars, publishVars, storeVars, formVars, pickerVars, qrVars,
                 dialogVars>>

WizardInit ==
  /\ videoItems = <<>>
  /\ downloadConfig = [downloadPath |-> "", downloadName |-> ""]
  /\ downloadStep = "select"
  /\ integrationEnabled = FALSE
  /\ searching = FALSE
  /\ search_requests = {}
  /\ next_requests = {}

\* the selection of parts and what leads to it and to the inputs of a part
SelectionNext ==
  \/ \E inputs \in SearchInputs : handleSearch(inputs)
  \/ \E inputs \in SearchInputs : \E found \in SUBSET VideoKeys : SearchDone(inputs, found)
  \/ \E index \in 1..Cardinality(VideoKeys) : \E key \in VideoKeys :
       \E k \in DOMAIN PagesOf(key) : togglePart(index, PagesOf(key)[k])
  \/ \E index \in 1..Cardinality(VideoKeys) : toggleSelectAll(index)
  \/ \E key \in VideoKeys : \E k \in DOMAIN PagesOf(key) :
       \E field \in PartTimeFields : \E value \in PartTimeChoices :
         updatePartConfigOfItem(buildPartKey(key, PagesOf(key)[k]), field, value)
  \/ \E value \in DownloadPathChoices : setDownloadConfig("downloadPath", value)
  \/ \E value \in DownloadNameChoices : setDownloadConfig("downloadName", value)
  \/ \E enableIntegration \in BOOLEAN : handleStartConfig(enableIntegration)
  \/ \E step \in {"select", "download"} : setDownloadStep(step)
  \/ handleNextFromDownloadConfig
  \/ \E r \in next_requests : \E pathReady \in BOOLEAN : NextDone(r, pathReady)
  \/ \E tab \in {"download", "records"} : setMainTab(tab)

\* the whole wizard, with the records view it ends in
WizardNext ==
  \/ \E inputs \in SearchInputs : handleSearch(inputs)
  \/ \E inputs \in SearchInputs : \E found \in SUBSET VideoKeys : SearchDone(inputs, found)
  \/ \E index \in 1..Cardinality(VideoKeys) : \E key \in VideoKeys :
       \E k \in DOMAIN PagesOf(key) : togglePart(index, PagesOf(key)[k])
  \/ \E index \in 1..Cardinality(VideoKeys) : toggleSelectAll(index)
  \/ \E key \in VideoKeys : \E k \in DOMAIN PagesOf(key) :
       \E field \in PartTimeFields : \E value \in PartTimeChoices :
         updatePartConfigOfItem(buildPartKey(key, PagesOf(key)[k]), field, value)
  \/ \E value \in DownloadPathChoices : setDownloadConfig("downloadPath", value)
  \/ \E value \in DownloadNameChoices : setDownloadConfig("downloadName", value)
  \/ \E enableIntegration \in BOOLEAN : handleStartConfig(enableIntegration)
  \/ \E step \in {"select", "download"} : setDownloadStep(step)
  \/ handleNextFromDownloadConfig
  \/ handleSubmitDownload
  \/ \E r \in next_requests : \E pathReady \in BOOLEAN : NextDone(r, pathReady)
  \/ \E r \in next_requests : \E success \in BOOLEAN : SubmitDone(r, success)
  \/ \E tab \in {"download", "records"} : setMainTab(tab)
  \/ \E status \in list_requests : ListResponse(status)

\* C28: in every video item, selectedPartsConfig lists exactly the cids of
\* selectedParts, in the same order, and selectedParts is ordered as in the
\* parts list of the video.
C28_ConfigMatchesSelection ==
  \A i \in DOMAIN videoItems :
    LET item == videoItems[i]
    IN  /\ [k \in DOMAIN item.selectedPartsConfig |-> item.selectedPartsConfig[k].cid]
             = item.selectedParts
        /\ \A a, b \in DOMAIN item.selectedParts :
             a < b => /\ IndexOf(item.parts, item.selectedParts[a]) > 0
                      /\ IndexOf(item.parts, item.selectedParts[a])
                           < IndexOf(item.parts, item.selectedParts[b])

\* both parts of the first of two videos are selected, and one was edited
\* after the download settings were changed
C28_Witness ==
  /\ Len(videoItems) = 2
  /\ Len(videoItems[1].selectedParts) = 2
  /\ videoItems[1].selectedPartsConfig[2].startTime # DefaultStartTime
  /\ downloadConfig.downloadPath # ""

\* C29: the step is submission only with download+submit enabled, download or
\* submission only with a part selected, and select whenever the main tab is
\* not the download tab.
C29_StepInvariant ==
  /\ downloadStep = "submission" => integrationEnabled
  /\ downloadStep \in {"download", "submission"} => hasSelection
  /\ mainTab # "download" => downloadStep = "select"

(***************************************************************************)
(* The delete dialog of the records view.  The delete button of a listed    *)
(* record opens the dialog; only its confirm button sends download_delete,  *)
(* which RecordCommand sends in one step where the dialog is of no concern. *)
(***************************************************************************)
\* the delete button of a listed record
handleRequestDeleteRecord(id) ==
  /\ mainTab = "records"
  /\ \E record \in downloadList : record.id = id
  /\ deleteConfirmRecord' = id
  /\ deleteConfirmDeleteFile' = FALSE
  /\ UNCHANGED delete_calls
  /\ UNCHANGED outsideDialog

\* the checkbox of the open dialog
setDeleteConfirmDeleteFile(checked) ==
  /\ deleteConfirmRecord # 0
  /\ deleteConfirmDeleteFile # checked
  /\ deleteConfirmDeleteFile' = checked
  /\ UNCHANGED <<deleteConfirmRecord, delete_calls>>
  /\ UNCHANGED outsideDialog

handleCancelDeleteRecord_KeepFlag ==
  /\ deleteConfirmRecord # 0
  /\ deleteConfirmRecord' = 0
  /\ UNCHANGED <<deleteConfirmDeleteFile, delete_calls>>
  /\ UNCHANGED outsideDialog

handleCancelDeleteRecord ==
  /\ deleteConfirmRecord # 0
  /\ deleteConfirmRecord' = 0
  /\ deleteConfirmDeleteFile' = FALSE
  /\ UNCHANGED delete_calls
  /\ UNCHANGED outsideDialog

\* handleConfirmDeleteRecord and handleDeleteRecord up to its await
handleConfirmDeleteRecord ==
  /\ deleteConfirmRecord # 0
  /\ Len(delete_calls) < MaxDeleteCalls
  /\ deleteConfirmRecord' = 0
  /\ deleteConfirmDeleteFile' = FALSE
  /\ delete_calls' =
       Append(delete_calls,
              [taskId |-> deleteConfirmRecord, deleteFile |-> deleteConfirmDeleteFile])
  /\ record_commands' =
       record_commands \cup
         { [command |-> "download_delete", id |-> deleteConfirmRecord,
            status |-> activeRecordStatus] }
  /\ UNCHANGED <<mainTab, recordTab, downloadList, list_requests, download_records>>
  /\ UNCHANGED <<workflowVars, uploadVars, recorderVars, settingsVars, poolVars, syncVars,
                 estimateVars, publishVars, storeVars, formVars, pickerVars, qrVars,
                 wizardVars>>

DialogInit ==
  /\ deleteConfirmRecord = 0
  /\ deleteConfirmDeleteFile = FALSE
  /\ delete_calls = <<>>

DialogNext ==
  \/ \E tab \in {"download", "records"} : setMainTab(tab)
  \/ PollTimer
  \/ \E status \in 0..StatusPaused : ListResponse(status)
  \/ \E id \in RecordIds : handleRequestDeleteRecord(id)
  \/ \E checked \in BOOLEAN : setDeleteConfirmDeleteFile(checked)
  \/ handleCancelDeleteRecord
  \/ handleConfirmDeleteRecord
  \/ \E c \in record_commands : CommandDone(c) \/ CommandError(c)

\* C30: download_delete is invoked only by the confirm button of the dialog,
\* for the record the dialog is open for, once, and with the value of the
\* checkbox of that dialog; the checkbox is unticked whenever the dialog is
\* opened, cancelled or confirmed, and cancelling invokes nothing.
C30_FlagOnlyWhileOpen == deleteConfirmRecord = 0 => ~deleteConfirmDeleteFile

C30_CallIsTheConfirmedOne ==
  delete_calls' # delete_calls =>
    /\ deleteConfirmRecord # 0
    /\ delete_calls' =
         Append(delete_calls,
                [taskId |-> deleteConfirmRecord, deleteFile |-> deleteConfirmDeleteFile])
    /\ deleteConfirmRecord' = 0

C30_FlagResetOnOpenAndClose ==
  (deleteConfirmRecord' # deleteConfirmRecord \/ delete_calls' # delete_calls)
    => ~deleteConfirmDeleteFile'

C30_DeleteOnlyAsConfirmed ==
  /\ []C30_FlagOnlyWhileOpen
  /\ [][C30_CallIsTheConfirmedOne]_vars
  /\ [][C30_FlagResetOnOpenAndClose]_vars

\* a record was deleted with its file and then another without
C30_Witness ==
  /\ Len(delete_calls) = 2
  /\ delete_calls[1].deleteFile
  /\ ~delete_calls[2].deleteFile
  /\ delete_calls[1].taskId # delete_calls[2].taskId
  /\ deleteConfirmRecord = 0

WorkflowInit ==
  /\ segmentationEnabled = TRUE
  /\ segmentDurationSeconds = DefaultSegmentDuration
  /\ payload = <<>>
  /\ workflow_configurations = (1 :> Seed1Blob) @@ (2 :> Seed2Blob)
  /\ video_download = <<>>
  /\ task_relations = <<>>
  /\ workflow_instance = NoInstance
  /\ workflow_steps = <<>>
  /\ userRetries = 0

WorkflowNext ==
  \/ \E b \in BOOLEAN : SetSegmentationEnabled(b)
  \/ \E v \in SegmentDurationChoices : SetSegmentDuration(v)
  \/ \E n \in 1..MaxParts, keep \in BOOLEAN : handleIntegrationDownload(n, keep)
  \/ download_video
  \/ \E c \in {1, 2}, n \in 1..MaxParts : CreateInstanceFromSeed(c, n)
  \/ \E d \in DownloadIds, total \in 1..MaxDownloadBytes : DownloadStart(d, total)
  \/ \E d \in DownloadIds : DownloadProgress(d)
  \/ \E d \in DownloadIds : DownloadFinish(d)
  \/ \E d \in DownloadIds : DownloadFail(d)
  \/ \E d \in DownloadIds : DownloadPause(d)
  \/ \E d \in DownloadIds : handleResumeRecord(d)
  \/ \E d \in DownloadIds : handleRetryRecord(d)
  \/ \E i \in StepIds : StartStep(i)
  \/ \E i \in StepIds : CompleteStep(i)
  \/ \E i \in StepIds, m \in ErrorMessages : FailStep(i, m)
  \/ RetryInstance


\* the components that a specification of another component leaves idle
RestInit ==
  SettingsInit /\ PoolInit /\ SyncInit /\ EstimateInit /\ PublishInit /\ StoreInit
  /\ FormInit /\ SectionInit /\ PickerInit /\ QrInit /\ WizardInit /\ DialogInit

Init == WorkflowInit /\ UploadIdle /\ RecorderInit /\ RestInit

Next == WorkflowNext

Spec == Init /\ [][Next]_vars

(***************************************************************************)
(* Claims about the workflow orchestrator (checked under Spec).             *)
(***************************************************************************)
RunningSteps == { i \in StepIds : workflow_steps[i].status = "RUNNING" }

\* C1: steps run strictly in step_order: a step that has reached running
\* has every step of a lower order in terminal success, and no two steps of
\* the instance are running at the same time.
C1_StepsRunInOrder ==
  /\ \A i \in StepIds :
       /\ workflow_steps[i].step_order = i
       /\ (workflow_steps[i].started_at \/ workflow_steps[i].status # "PENDING")
            => \A j \in StepIds : j < i => workflow_steps[j].status = "COMPLETED"
  /\ Cardinality(RunningSteps) <= 1

\* the third step runs, retried, behind two completed ones
C1_Witness ==
  /\ Len(workflow_steps) >= 3
  /\ workflow_steps[3].status = "RUNNING"
  /\ workflow_steps[3].retry_count > 0
  /\ workflow_steps[1].retry_count > 0

FailedSteps == { i \in StepIds : workflow_steps[i].status = "FAILED" }

C2_RetryBound ==
  \A i \in StepIds :
    LET step == workflow_steps[i] IN
      /\ step.retry_count <= step.max_retries
      /\ step.retry_count >= step.max_retries => step.status = "FAILED"
      /\ step.status = "FAILED" =>
           /\ step.retry_count = step.max_retries
           /\ step.error_message # NULL
           /\ workflow_instance.status = "FAILED"
           /\ workflow_instance.error_message = step.error_message
           /\ \A r \in DOMAIN task_relations :
                /\ task_relations[r].workflow_status = "WORKFLOW_FAILED"
                /\ task_relations[r].last_error_message = step.error_message

C2_NoAutomaticAttempt ==
  \A i \in StepIds :
    (workflow_steps[i].status = "FAILED" /\ workflow_steps'[i] # workflow_steps[i])
      => RetryInstance

\* C2: retry_count never exceeds max_retries; a step out of retries is
\* terminally failed together with its instance, the last error message is
\* persisted on the instance and on the task relations, and only the
\* explicit retry touches the failed step again.
C2_RetriesBounded == [](C2_RetryBound) /\ [][C2_NoAutomaticAttempt]_vars

\* a step behind the first one has failed for good in the integrated flow,
\* its last failure having been a timeout
C2_Witness ==
  /\ task_relations # <<>>
  /\ \E i \in FailedSteps :
       /\ workflow_steps[i].error_message = "step timed out"
       /\ workflow_instance.error_message = "step timed out"
       /\ i > 1

\* the user's retry of the instance is the step that counts in userRetries
ExplicitRetry == userRetries' = userRetries + 1

C13_NothingAutomatic ==
  workflow_instance.status = "FAILED" =>
    \/ /\ workflow_steps' = workflow_steps
       /\ workflow_instance' = workflow_instance
       /\ task_relations' = task_relations
    \/ ExplicitRetry

C13_RetryFromFailedStep ==
  (workflow_instance.status = "FAILED" /\ ExplicitRetry) =>
    /\ workflow_instance'.status # "FAILED"
    /\ \A i \in StepIds :
         /\ workflow_steps[i].status = "FAILED" =>
              /\ workflow_steps'[i].status = "PENDING"
              /\ workflow_steps'[i].retry_count = 0
              /\ \A j \in StepIds : j < i => workflow_steps'[j].status = "COMPLETED"
         /\ workflow_steps[i].status # "FAILED" => workflow_steps'[i] = workflow_steps[i]

C13_SucceededStepsKept ==
  \A i \in StepIds :
    workflow_steps[i].status = "COMPLETED" => workflow_steps'[i] = workflow_steps[i]

\* C13: once a step is out of retries nothing touches the failed instance
\* but the user's retry; the retry clears the failed step's counter and makes
\* it the next step to run, and a step that has succeeded keeps its status,
\* counters and output for good: it is never run again.
C13_RetryResumesAtFailedStep ==
  /\ [][C13_NothingAutomatic]_vars
  /\ [][C13_RetryFromFailedStep]_vars
  /\ [][C13_SucceededStepsKept]_vars

\* after the user's retry the second step runs again with a cleared counter,
\* behind a first step that is still completed with the retries it needed
C13_Witness ==
  /\ userRetries > 0
  /\ Len(workflow_steps) >= 2
  /\ workflow_steps[1].status = "COMPLETED"
  /\ workflow_steps[1].retry_count > 0
  /\ workflow_steps[1].output_data # NULL
  /\ workflow_steps[2].status = "RUNNING"
  /\ workflow_steps[2].retry_count = 0

StepTypes == { workflow_steps[i].step_type : i \in StepIds }

WorkflowBegun ==
  \/ workflow_instance.status \notin {"NONE", "PENDING"}
  \/ \E i \in StepIds : workflow_steps[i].status # "PENDING" \/ workflow_steps[i].started_at

\* C10: in the integrated flow no step of the instance leaves pending
\* before every VideoDownload its task relations name is done: fully
\* fetched, and in none of the states pending, downloading, failed, paused.
C10_WorkflowWaitsForDownload ==
  (task_relations # <<>> /\ WorkflowBegun) =>
    \A r \in DOMAIN task_relations :
      LET d == video_download[task_relations[r].download_task_id] IN
        /\ d.status \notin {StatusPending, StatusDownloading, StatusFailed, StatusPaused}
        /\ d.progress_total > 0
        /\ d.progress_done = d.progress_total

\* the workflow of a two-part request of the form has begun
C10_Witness ==
  /\ Len(task_relations) = 2
  /\ workflow_instance.configuration_id = InstanceConfigId
  /\ \E i \in StepIds : workflow_steps[i].status = "RUNNING"

(***************************************************************************)
(* The upload specification.                                                *)
(***************************************************************************)
UploadSpecInit ==
  WorkflowInit /\ UploadInit /\ RecorderInit /\ RestInit

UploadSpec == UploadSpecInit /\ [][UploadNext]_vars

(***************************************************************************)
(* The recorder specifications. The retry timer is a timer of the           *)
(* monitoring loop: once armed it fires unless the room leaves              *)
(* Reconnecting first.                                                      *)
(***************************************************************************)
RecorderSpecInit ==
  WorkflowInit /\ UploadIdle /\ RecorderInit /\ RestInit

RecorderSpec == RecorderSpecInit /\ [][RecorderNext]_vars

\* The recorder's control transitions: the frames written to the file do
\* not move a room's state machine and are left out.
RecorderControlNext ==
  \/ \E r \in Rooms : anchor_subscribe(r)
  \/ \E r \in Rooms : anchor_unsubscribe(r)
  \/ \E r \in Rooms : live_room_auto_record_update(r)
  \/ \E r \in Rooms : LiveDetected(r)
  \/ \E r \in Rooms, gap \in BOOLEAN : ConnectOk(r, gap)
  \/ \E r \in Rooms : ConnectFail(r)
  \/ \E r \in Rooms : StreamDisconnect(r)
  \/ \E r \in Rooms : RetryTimer(r)
  \/ \E r \in Rooms : DiskWriteError(r)
  \/ \E r \in Rooms : CloseSegment(r)
  \/ \E r \in Rooms : OpenSegment(r)
  \/ Shutdown

\* The retry timer of a room is a timer of the running process: once set it
\* fires unless the room leaves Reconnecting or the process shuts down.
RecorderFairSpec ==
  /\ RecorderSpecInit
  /\ [][RecorderControlNext]_vars
  /\ \A r \in Rooms : WF_vars(RetryTimer(r))

(***************************************************************************)
(* The download pool specification.                                         *)
(***************************************************************************)
PoolSpecInit ==
  WorkflowInit /\ UploadIdle /\ RecorderInit /\ RestInit

PoolSpec == PoolSpecInit /\ [][PoolNext]_vars

(***************************************************************************)
(* The sync mirror specification.                                           *)
(***************************************************************************)
SyncSpecInit ==
  WorkflowInit /\ UploadIdle /\ RecorderInit /\ RestInit

SyncSpec == SyncSpecInit /\ [][SyncNext]_vars

(***************************************************************************)
(* The specification of the segment estimate: the form, the request and    *)
(* the steps that turn it into segments.                                    *)
(***************************************************************************)
EstimateSpecInit ==
  WorkflowInit /\ UploadIdle /\ RecorderInit /\ RestInit

EstimateSpec == EstimateSpecInit /\ [][EstimateNext]_vars

(***************************************************************************)
(* The specification of the segment uploads and the publish call.           *)
(***************************************************************************)
PublishSpecInit ==
  WorkflowInit /\ UploadIdle /\ RecorderInit /\ RestInit

PublishSpec == PublishSpecInit /\ [][PublishNext]_vars

StoreSpecInit ==
  /\ WorkflowInit /\ UploadIdle /\ RecorderInit
  /\ SettingsInit /\ PoolInit /\ SyncInit /\ EstimateInit /\ PublishInit
  /\ FormInit /\ SectionInit /\ PickerInit /\ QrInit /\ WizardInit /\ DialogInit
  /\ db = SeededDb
  /\ schema_runs = 1
  /\ deleted_from = {}

StoreSpec == StoreSpecInit /\ [][StoreNext]_vars

SchemaSpecInit == WorkflowInit /\ UploadIdle /\ RecorderInit /\ RestInit

SchemaSpec == SchemaSpecInit /\ [][SchemaNext]_vars

FormSpecInit ==
  /\ WorkflowInit /\ UploadIdle /\ RecorderInit
  /\ SettingsInit /\ PoolInit /\ SyncInit /\ EstimateInit /\ PublishInit /\ StoreInit
  /\ SectionInit /\ PickerInit /\ QrInit /\ WizardInit /\ DialogInit
  /\ integrationForm \in FilledForms(MaxFormParts) \cup IntegrationForms(MaxFormParts)
  /\ formMessage = ""
  /\ download_requests = <<>>

FormSpec == FormSpecInit /\ [][FormNext]_vars

RecordsSpecInit == WorkflowInit /\ UploadIdle /\ RecorderInit /\ RestInit

RecordsSpec == RecordsSpecInit /\ [][RecordsNext]_vars

PickerSpecInit == WorkflowInit /\ UploadIdle /\ RecorderInit /\ RestInit

PickerSpec == PickerSpecInit /\ [][PickerNext]_vars

QrSpecInit == WorkflowInit /\ UploadIdle /\ RecorderInit /\ RestInit

QrSpec == QrSpecInit /\ [][QrNext]_vars

WizardSpecInit == WorkflowInit /\ UploadIdle /\ RecorderInit /\ RestInit

SelectionSpecInit == WorkflowInit /\ UploadIdle /\ RecorderInit /\ RestInit

SelectionSpec == SelectionSpecInit /\ [][SelectionNext]_vars

WizardSpec == WizardSpecInit /\ [][WizardNext]_vars

DialogSpecInit == WorkflowInit /\ UploadIdle /\ RecorderInit /\ RestInit

DialogSpec == DialogSpecInit /\ [][DialogNext]_vars

====
